---- MODULE Spec2Model ----
(***************************************************************************)
(* Telescope-Search: the backend search pipeline (runRipgrep and the       *)
(* 'search' message handler) and the backend preview window.               *)
(*                                                                         *)
(* Strings of the program are modelled as sequences of one-character       *)
(* strings, so that split, join, trim, parseInt and the path functions are *)
(* computed character by character as the JavaScript library computes      *)
(* them.  Str0 is the empty string.                                        *)
(***************************************************************************)
EXTENDS Integers, Sequences, FiniteSets, TLC

Str0 == << >>

(* Numbers are integers; NaN is a value outside the range of every number  *)
(* the model computes, tested with IsNaN before any arithmetic.           *)
NaN == 0 - 1000000000

IsNaN(n) == n = NaN

Digits == <<"0", "1", "2", "3", "4", "5", "6", "7", "8", "9">>

IsDigit(c) == \E d \in 1..10 : Digits[d] = c

DigitVal(c) == (CHOOSE d \in 1..10 : Digits[d] = c) - 1

IsSpace(c) == c \in {" ", "\t", "\n", "\r"}

Max(a, b) == IF a >= b THEN a ELSE b

Min(a, b) == IF a <= b THEN a ELSE b

SetMin(S) == CHOOSE x \in S : \A y \in S : x <= y

(* String.prototype.split(sep) for a one-character separator: the pieces *)
(* between the separators, in order, [s] if there is none.  The string   *)
(* is halved, so the depth of the recursion is logarithmic in its length: *)
(* the last piece of the left half and the first piece of the right half  *)
(* are one piece of the whole.                                            *)
RECURSIVE Split(_, _)
Split(s, sep) ==
    IF Len(s) = 0 THEN <<Str0>>
    ELSE IF Len(s) = 1 THEN (IF s[1] = sep THEN <<Str0, Str0>> ELSE <<s>>)
    ELSE LET m == Len(s) \div 2
             l == Split(SubSeq(s, 1, m), sep)
             r == Split(SubSeq(s, m + 1, Len(s)), sep)
         IN  SubSeq(l, 1, Len(l) - 1) \o <<l[Len(l)] \o r[1]>> \o Tail(r)

(* Array.prototype.join(sep). *)
RECURSIVE Join(_, _)
Join(parts, sep) ==
    IF Len(parts) = 0 THEN Str0
    ELSE IF Len(parts) = 1 THEN parts[1]
    ELSE LET m == Len(parts) \div 2
         IN  Join(SubSeq(parts, 1, m), sep) \o sep
                 \o Join(SubSeq(parts, m + 1, Len(parts)), sep)

(* Array.prototype.slice(from) with from >= 0. *)
SliceFrom(a, from) == SubSeq(a, from + 1, Len(a))

(* Array.prototype.slice(from, to) with 0 <= from, to. *)
Slice(a, from, to) == SubSeq(a, from + 1, Min(to, Len(a)))

(* String.prototype.trim(). *)
Trim(s) ==
    LET keep == {i \in 1..Len(s) : ~IsSpace(s[i])}
    IN  IF keep = {} THEN Str0
        ELSE SubSeq(s, SetMin(keep), CHOOSE x \in keep : \A y \in keep : y <= x)

(* The value of a string of decimal digits. *)
RECURSIVE DecValue(_)
DecValue(ds) ==
    IF Len(ds) = 0 THEN 0
    ELSE 10 * DecValue(SubSeq(ds, 1, Len(ds) - 1)) + DigitVal(ds[Len(ds)])

(* parseInt(s, 10): leading white space is skipped, an optional sign is   *)
(* read, then the longest prefix of decimal digits; NaN if there is none. *)
ParseInt(s) ==
    LET nonsp  == {i \in 1..Len(s) : ~IsSpace(s[i])}
        b      == IF nonsp = {} THEN Len(s) + 1 ELSE SetMin(nonsp)
        signed == b <= Len(s) /\ s[b] \in {"-", "+"}
        d      == IF signed THEN b + 1 ELSE b
        stops  == {i \in d..Len(s) : ~IsDigit(s[i])}
        e      == IF stops = {} THEN Len(s) ELSE SetMin(stops) - 1
    IN  IF e < d THEN NaN
        ELSE IF signed /\ s[b] = "-" THEN 0 - DecValue(SubSeq(s, d, e))
        ELSE DecValue(SubSeq(s, d, e))

(* Number to string, as a template literal `${n}` formats it. *)
RECURSIVE NatToStr(_)
NatToStr(n) ==
    IF n < 10 THEN <<Digits[n + 1]>>
    ELSE NatToStr(n \div 10) \o <<Digits[(n % 10) + 1]>>

NumToStr(n) ==
    IF IsNaN(n) THEN <<"N", "a", "N">>
    ELSE IF n < 0 THEN <<"-">> \o NatToStr(0 - n)
    ELSE NatToStr(n)

(* path.posix normalizeString: "" and "." segments are dropped and ".."   *)
(* removes the segment before it; above the root of an absolute path it   *)
(* is dropped, in a relative path it is kept.                             *)
RECURSIVE NormalizeSegs(_, _, _)
NormalizeSegs(segs, acc, allowAboveRoot) ==
    IF Len(segs) = 0 THEN acc
    ELSE LET g    == Head(segs)
             rest == Tail(segs)
             up   == <<".", ".">>
         IN  IF g = Str0 \/ g = <<".">> THEN NormalizeSegs(rest, acc, allowAboveRoot)
             ELSE IF g = up
                  THEN IF Len(acc) > 0 /\ acc[Len(acc)] # up
                       THEN NormalizeSegs(rest, SubSeq(acc, 1, Len(acc) - 1), allowAboveRoot)
                       ELSE IF allowAboveRoot
                            THEN NormalizeSegs(rest, Append(acc, g), allowAboveRoot)
                            ELSE NormalizeSegs(rest, acc, allowAboveRoot)
             ELSE NormalizeSegs(rest, Append(acc, g), allowAboveRoot)

(* path.posix.normalize. *)
PathNormalize(p) ==
    IF Len(p) = 0 THEN <<".">>
    ELSE LET isAbsolute == p[1] = "/"
             trailing   == p[Len(p)] = "/"
             body       == Join(NormalizeSegs(Split(p, "/"), << >>, ~isAbsolute), <<"/">>)
         IN  IF Len(body) = 0
             THEN IF isAbsolute THEN <<"/">>
                  ELSE IF trailing THEN <<".", "/">> ELSE <<".">>
             ELSE (IF isAbsolute THEN <<"/">> ELSE Str0) \o body
                  \o (IF trailing THEN <<"/">> ELSE Str0)

(* path.posix.join(a, b): the non-empty arguments joined by "/", normalized. *)
PathJoin(a, b) ==
    IF Len(a) = 0 /\ Len(b) = 0 THEN <<".">>
    ELSE IF Len(a) = 0 THEN PathNormalize(b)
    ELSE IF Len(b) = 0 THEN PathNormalize(a)
    ELSE PathNormalize(a \o <<"/">> \o b)

(* path.posix.basename(p): trailing separators are ignored, the result is *)
(* what follows the last separator before them.                           *)
PathBasename(p) ==
    LET named == {i \in 1..Len(p) : p[i] # "/"}
    IN  IF named = {} THEN Str0
        ELSE LET e    == CHOOSE x \in named : \A y \in named : y <= x
                 seps == {i \in 1..e : p[i] = "/"}
                 b    == IF seps = {} THEN 1
                         ELSE (CHOOSE x \in seps : \A y \in seps : y <= x) + 1
             IN  SubSeq(p, b, e)

(***************************************************************************)
(* Bounds of the model and the inputs drawn within them.                   *)
(***************************************************************************)
MaxTermLen == 3

MaxChunks == 4

MaxErrChunks == 1

MaxBursts == 5

BurstLines == 101

(* The search terms a 'search' message may carry: "", "f", "ff", ... *)
Terms == {[i \in 1..n |-> "f"] : n \in 0..MaxTermLen}

(* workspaceFolders[0].uri.fsPath of the open folder. *)
rootPath == <<"/", "w">>

(* Pieces of output the tool may write in one 'data' event.  Chunks are    *)
(* arbitrary pieces of the byte stream: a match prefix with a directory,   *)
(* a match prefix with a two-digit line, a text with a colon and blanks    *)
(* around it, a bare word, and the line terminator.                        *)
ChunkDirMatch == <<"d", "/", "a", ":", "3", ":", "1", ":">>

ChunkMatch == <<"b", ":", "1", "2", ":", "5", ":">>

ChunkText == <<" ", "x", ":", "y", " ">>

ChunkWord == <<"z">>

ChunkNewline == <<"\n">>

StdoutChunks == {ChunkDirMatch, ChunkMatch, ChunkText, ChunkWord, ChunkNewline}

StderrChunks == {<<"E">>}

(* One match line of a large output, for file f. *)
BurstLine(f) == <<f, ":", "7", ":", "1", ":", "z", "\n">>

(* A large piece of output: BurstLines match lines of one file. *)
Burst(f) ==
    [i \in 1..(BurstLines * Len(BurstLine(f))) |->
        BurstLine(f)[((i - 1) % Len(BurstLine(f))) + 1]]

BurstFiles == {"a", "b"}

(* Exit codes of a process that started; -2 is the negative errno that    *)
(* 'close' carries after a failed spawn.                                  *)
ExitCodes == {0, 1, 2}

SpawnFailCode == 0 - 2

OsErrors == {"spawn rg ENOENT", "spawn rg EACCES"}

(***************************************************************************)
(* runRipgrep                                                              *)
(***************************************************************************)
command == "rg"

args(searchTerm) == <<"-F", "--vimgrep", "--ignore-case", searchTerm, ".">>

(* The placeholder returned when no folder is open. *)
NoFolderResult ==
    [label |-> "Please open a project folder first.", description |-> Str0,
     filePath |-> Str0, line |-> 0]

(* The callback of lines.map: one output line to a match, or null. *)
null == [null |-> TRUE]

MinParts == 4

DescriptionFrom == 3

(* ParseLine with the field test off by one: a line of exactly four fields *)
(* is dropped.                                                             *)
ParseLineFiveFields(line) ==
    LET parts == Split(line, ":")
    IN  IF Len(parts) <= MinParts THEN null
        ELSE [label       |-> PathBasename(parts[1]) \o <<":">> \o NumToStr(ParseInt(parts[2])),
              description |-> Trim(Join(SliceFrom(parts, DescriptionFrom), <<":">>)),
              filePath    |-> PathJoin(rootPath, parts[1]),
              line        |-> ParseInt(parts[2])]

(* ParseLine with the text taken from its first field alone: what follows  *)
(* a colon inside the matched text is lost.                                *)
ParseLineFirstTextField(line) ==
    LET parts == Split(line, ":")
    IN  IF Len(parts) < MinParts THEN null
        ELSE [label       |-> PathBasename(parts[1]) \o <<":">> \o NumToStr(ParseInt(parts[2])),
              description |-> Trim(parts[DescriptionFrom + 1]),
              filePath    |-> PathJoin(rootPath, parts[1]),
              line        |-> ParseInt(parts[2])]

ParseLine(line) ==
    LET parts == Split(line, ":")
    IN  IF Len(parts) < MinParts THEN null
        ELSE LET filePath   == PathJoin(rootPath, parts[1])
                 lineNumber == ParseInt(parts[2])
                 content    == Trim(Join(SliceFrom(parts, DescriptionFrom), <<":">>))
             IN  [label       |-> PathBasename(parts[1]) \o <<":">> \o NumToStr(lineNumber),
                  description |-> content,
                  filePath    |-> filePath,
                  line        |-> lineNumber]

KeepLine(line) == Len(line) > 0

KeepResult(p) == p # null

(* Steps 7 and 8 of the 'close' handler: the complete stdout to results. *)
ParseStdout(out) ==
    LET lines  == SelectSeq(Split(out, "\n"), KeepLine)
        mapped == [i \in 1..Len(lines) |-> ParseLine(lines[i])]
    IN  SelectSeq(mapped, KeepResult)

(* The values the promise of runRipgrep is rejected with. *)
RipgrepError(stderr, searchTerm) ==
    [text    |-> "Ripgrep Error: ${stderrData}\nCommand: ${command} ${args.join(' ')}",
     stderr  |-> stderr,
     command |-> command,
     args    |-> args(searchTerm)]

(* StartError without the operating system's message. *)
StartErrorNoMessage(message) ==
    [text    |-> "Failed to start Ripgrep process: ${err.message}",
     message |-> "unknown error"]

StartError(message) ==
    [text    |-> "Failed to start Ripgrep process: ${err.message}",
     message |-> message]

(* IsSuccessCode with exit code 1 taken for a failure. *)
IsSuccessCodeZeroOnly(code) == code = 0

IsSuccessCode(code) == code = 0 \/ code = 1

(***************************************************************************)
(* State                                                                   *)
(***************************************************************************)
VARIABLES
    workspaceFolders,  \* whether a workspace folder is open
    pc,                \* the 'search' handler: "start" (not called yet),
                       \* "awaiting" (at the await of runRipgrep), "done"
    searchTerm,        \* message.text of the search being handled
    rgProcess,         \* the spawned process: "none", "running", "failed", "closed"
    events,            \* the events the process has emitted, in order:
                       \* <<"error", message>> and <<"close", code>>
    stdoutData,        \* runRipgrep's accumulated stdout
    stderrData,        \* runRipgrep's accumulated stderr
    nChunks,           \* stdout 'data' events of small chunks so far
    nBursts,           \* stdout 'data' events of large chunks so far
    promise,           \* the promise runRipgrep returned
    outbox,            \* messages posted to the webview for this search
    spawns,            \* processes spawned for this search
    previewLine,       \* message.data.line of a 'getPreview' message
    totalLines,        \* allLines.length of the file it names
    window,            \* the preview window computed for it, or null
    fileContent,       \* the content of the file a preview reads, or the
                       \* error reading it raises
    highlighter,       \* the highlighter: null, or the languages it has loaded
    currentTheme,      \* the active theme
    searchBox,         \* webview: the value of the search box
    filesDiv,          \* webview: the children of the result list element
    previewDiv,        \* webview: the rows of the preview element
    selectedIndex,     \* webview: the selection index
    previewDebounceTimer, \* webview: the last handle setTimeout gave for a
                       \* preview, 0 before the first
    searchDebounceTimer, \* webview: the same for a search
    timers,            \* webview: the timers set and neither fired nor cleared
    sent,              \* webview: the messages posted to the extension
                       \* and not yet taken by it
    shiki,             \* extension: whether the shiki module is loaded
    currentPanel,      \* extension: whether currentPanel holds a panel
    panels,            \* the webview panels created and not disposed
    storedTheme,       \* extension: globalState's value of THEME_STORAGE_KEY
    notifications,     \* extension: the messages shown to the user
    documents,         \* extension: the documents showTextDocument has shown
    jobs,              \* extension: the handlers called so far, each with
                       \* the await it is at
    activation         \* extension: "inactive" before activate, "active" once
                       \* it has registered the commands, "failed" if it threw

searchVars == <<workspaceFolders, pc, searchTerm, rgProcess, events, stdoutData,
                stderrData, nChunks, nBursts, promise, outbox, spawns>>

previewVars == <<previewLine, totalLines, window>>

handlerVars == <<fileContent, highlighter, currentTheme>>

surfaceVars == <<searchBox, filesDiv, previewDiv, selectedIndex,
                 previewDebounceTimer, searchDebounceTimer, timers, sent>>

hostVars == <<shiki, currentPanel, panels, storedTheme, notifications, documents, jobs,
              activation>>

nonSearchVars == <<previewVars, handlerVars, surfaceVars, hostVars>>

(* The search variables without outbox. *)
searchSide == <<workspaceFolders, pc, searchTerm, rgProcess, events, stdoutData,
                stderrData, nChunks, nBursts, promise, spawns>>

(* The variables of the extension without outbox, which the webview's      *)
(* message listener takes its messages from.                               *)
hostSide == <<searchSide, previewVars, handlerVars, hostVars>>

vars == <<searchVars, nonSearchVars>>

Pending == [state |-> "pending"]

Resolved(v) == [state |-> "resolved", value |-> v]

Rejected(v) == [state |-> "rejected", value |-> v]

(* Settle for a promise that could be settled again. *)
SettleAgain(p, outcome) == outcome

(* resolve and reject settle a pending promise and do nothing otherwise. *)
Settle(p, outcome) == IF p.state = "pending" THEN outcome ELSE p

(* The globals of the extension when it is loaded. *)
HandlerIdle ==
    /\ fileContent = [content |-> Str0]
    /\ highlighter = null
    /\ currentTheme = "vitesse-dark"

(* The rest of the extension before it is activated. *)
HostIdle ==
    /\ shiki = FALSE
    /\ currentPanel = FALSE
    /\ panels = 0
    /\ storedTheme = "undefined"
    /\ notifications = << >>
    /\ documents = << >>
    /\ jobs = << >>
    /\ activation = "inactive"

(* The webview when its script has run: lines 216-220 of the script. *)
SurfaceIdle ==
    /\ searchBox = Str0
    /\ filesDiv = << >>
    /\ previewDiv = << >>
    /\ selectedIndex = 0
    /\ previewDebounceTimer = 0
    /\ searchDebounceTimer = 0
    /\ timers = {}
    /\ sent = << >>

Init ==
    /\ workspaceFolders \in BOOLEAN
    /\ pc = "start"
    /\ searchTerm = Str0
    /\ rgProcess = "none"
    /\ events = << >>
    /\ stdoutData = Str0
    /\ stderrData = Str0
    /\ nChunks = 0
    /\ nBursts = 0
    /\ promise = [state |-> "none"]
    /\ outbox = << >>
    /\ spawns = 0
    /\ previewLine = Str0
    /\ totalLines = 0
    /\ window = null
    /\ HandlerIdle
    /\ SurfaceIdle
    /\ HostIdle

(* The process of the previous search has emitted everything it will. *)
ProcessQuiet ==
    \/ rgProcess = "none"
    \/ rgProcess = "closed"
    \/ rgProcess = "failed" /\ Len(events) = 2

Emitted(type) == \E i \in 1..Len(events) : events[i][1] = type

(* TooShort off by one: a term of two characters is searched. *)
TooShortBelowTwo(term) == Len(term) = 0 \/ Len(term) < 2

(* The guard of case 'search': empty and short terms are not searched. *)
TooShort(term) == Len(term) = 0 \/ Len(term) <= 2

(* case 'search' of onDidReceiveMessage, up to the await of runRipgrep.    *)
(* A short term is answered at once.  Without a workspace folder          *)
(* runRipgrep returns the placeholder and the handler posts it.  Otherwise *)
(* the process is spawned, and the spawn succeeds or fails.                *)
ReceiveSearch(term) ==
    /\ pc \in {"start", "done"}
    /\ ProcessQuiet
    /\ searchTerm' = term
    /\ events' = << >>
    /\ stdoutData' = Str0
    /\ stderrData' = Str0
    /\ nChunks' = 0
    /\ nBursts' = 0
    /\ UNCHANGED <<workspaceFolders, nonSearchVars>>
    /\ IF TooShort(term)
       THEN /\ outbox' = <<[command |-> "results", data |-> << >>]>>
            /\ promise' = [state |-> "none"]
            /\ rgProcess' = "none"
            /\ spawns' = 0
            /\ pc' = "done"
       ELSE IF ~workspaceFolders
       THEN /\ outbox' = <<[command |-> "results", data |-> <<NoFolderResult>>]>>
            /\ promise' = Resolved(<<NoFolderResult>>)
            /\ rgProcess' = "none"
            /\ spawns' = 0
            /\ pc' = "done"
       ELSE /\ outbox' = << >>
            /\ promise' = Pending
            /\ rgProcess' \in {"running", "failed"}
            /\ spawns' = 1
            /\ pc' = "awaiting"

(* rgProcess.stdout.on('data'): a small chunk is appended. *)
StdoutData(chunk) ==
    /\ rgProcess = "running"
    /\ nBursts = 0
    /\ nChunks < MaxChunks
    /\ stdoutData' = stdoutData \o chunk
    /\ nChunks' = nChunks + 1
    /\ UNCHANGED <<workspaceFolders, pc, searchTerm, rgProcess, events, stderrData,
                   nBursts, promise, outbox, spawns,
                   nonSearchVars>>

(* rgProcess.stdout.on('data'): a large chunk is appended. *)
StdoutBurst(f) ==
    /\ rgProcess = "running"
    /\ nChunks = 0
    /\ nBursts < MaxBursts
    /\ stdoutData' = stdoutData \o Burst(f)
    /\ nBursts' = nBursts + 1
    /\ UNCHANGED <<workspaceFolders, pc, searchTerm, rgProcess, events, stderrData,
                   nChunks, promise, outbox, spawns,
                   nonSearchVars>>

(* rgProcess.stderr.on('data'). *)
StderrData(chunk) ==
    /\ rgProcess = "running"
    /\ Len(stderrData) < MaxErrChunks
    /\ stderrData' = stderrData \o chunk
    /\ UNCHANGED <<workspaceFolders, pc, searchTerm, rgProcess, events, stdoutData,
                   nChunks, nBursts, promise, outbox, spawns,
                   nonSearchVars>>

(* rgProcess.on('close').  A process that started closes with its exit    *)
(* code.  After a failed spawn Node emits 'error' first and then 'close'   *)
(* with the negative errno.                                                *)
(* OnClose without the test of the exit code. *)
OnCloseAnyCode(code) == Settle(promise, Resolved(ParseStdout(stdoutData)))

OnClose(code) ==
    IF ~IsSuccessCode(code)
    THEN Settle(promise, Rejected(RipgrepError(stderrData, searchTerm)))
    ELSE Settle(promise, Resolved(ParseStdout(stdoutData)))

Close(code) ==
    /\ \/ rgProcess = "running" /\ code \in ExitCodes
       \/ /\ rgProcess = "failed"
          /\ code = SpawnFailCode
          /\ Emitted("error")
          /\ ~Emitted("close")
    /\ promise' = OnClose(code)
    /\ events' = Append(events, <<"close", code>>)
    /\ rgProcess' = IF rgProcess = "running" THEN "closed" ELSE rgProcess
    /\ UNCHANGED <<workspaceFolders, pc, searchTerm, stdoutData, stderrData,
                   nChunks, nBursts, outbox, spawns,
                   nonSearchVars>>

(* rgProcess.on('error'): the process could not be started. *)
OnError(message) == Settle(promise, Rejected(StartError(message)))

Error(message) ==
    /\ rgProcess = "failed"
    /\ ~Emitted("error")
    /\ promise' = OnError(message)
    /\ events' = Append(events, <<"error", message>>)
    /\ UNCHANGED <<workspaceFolders, pc, searchTerm, rgProcess, stdoutData, stderrData,
                   nChunks, nBursts, outbox, spawns,
                   nonSearchVars>>

(* The message the handler posts once runRipgrep's promise is settled:    *)
(* 'results' after the await, 'error' with String(e) in the catch.        *)
SearchReply(p) ==
    IF p.state = "resolved"
    THEN [command |-> "results", data |-> p.value]
    ELSE [command |-> "error", data |-> p.value]

(* case 'search' of onDidReceiveMessage, from the await on. *)
SearchContinue ==
    /\ pc = "awaiting"
    /\ promise.state \in {"resolved", "rejected"}
    /\ outbox' = Append(outbox, SearchReply(promise))
    /\ pc' = "done"
    /\ UNCHANGED <<workspaceFolders, searchTerm, rgProcess, events, stdoutData,
                   stderrData, nChunks, nBursts, promise, spawns,
                   nonSearchVars>>

Next ==
    \/ \E term \in Terms : ReceiveSearch(term)
    \/ \E chunk \in StdoutChunks : StdoutData(chunk)
    \/ \E f \in BurstFiles : StdoutBurst(f)
    \/ \E chunk \in StderrChunks : StderrData(chunk)
    \/ \E code \in ExitCodes \cup {SpawnFailCode} : Close(code)
    \/ \E message \in OsErrors : Error(message)
    \/ SearchContinue

Spec == Init /\ [][Next]_vars

(***************************************************************************)
(* case 'getPreview': the window of lines that is tokenized                *)
(***************************************************************************)
MaxTotalLines == 210

MaxPreviewLine == 320

(* The line numbers a 'getPreview' message may carry: dataset.line of a   *)
(* result item, a string.                                                  *)
PreviewLines == {NumToStr(n) : n \in 0..MaxPreviewLine}

(* JavaScript arithmetic on numbers that may be NaN. *)
JsSub(a, b) == IF IsNaN(a) \/ IsNaN(b) THEN NaN ELSE a - b

JsAdd(a, b) == IF IsNaN(a) \/ IsNaN(b) THEN NaN ELSE a + b

JsLess(a, b) == ~IsNaN(a) /\ ~IsNaN(b) /\ a < b

MathMax(a, b) == IF IsNaN(a) \/ IsNaN(b) THEN NaN ELSE Max(a, b)

MathMin(a, b) == IF IsNaN(a) \/ IsNaN(b) THEN NaN ELSE Min(a, b)

linesToRender == 100

(* PreviewWindow without the adjustment near the end of the file. *)
PreviewWindowNoAdjust(targetLineIndex, total) ==
    LET start == MathMax(0, JsSub(targetLineIndex, linesToRender \div 2))
    IN  [startLine |-> start, endLine |-> MathMin(total, JsAdd(start, linesToRender))]

(* PreviewWindow with the adjusted start not kept at or above line 0. *)
PreviewWindowAdjustBelowZero(targetLineIndex, total) ==
    LET start   == MathMax(0, JsSub(targetLineIndex, linesToRender \div 2))
        endLine == MathMin(total, JsAdd(start, linesToRender))
    IN  [startLine |-> IF JsLess(JsSub(endLine, start), linesToRender)
                       THEN JsSub(endLine, linesToRender)
                       ELSE start,
         endLine   |-> endLine]

(* PreviewWindow that ends at the target line instead of being centred on *)
(* it: the whole size is subtracted, not half of it.                       *)
PreviewWindowBeforeTarget(targetLineIndex, total) ==
    LET start   == MathMax(0, JsSub(targetLineIndex, linesToRender))
        endLine == MathMin(total, JsAdd(start, linesToRender))
    IN  [startLine |-> IF JsLess(JsSub(endLine, start), linesToRender)
                       THEN MathMax(0, JsSub(endLine, linesToRender))
                       ELSE start,
         endLine   |-> endLine]

(* Step 2 of case 'getPreview': startLine and endLine. *)
PreviewWindow(targetLineIndex, total) ==
    LET start   == MathMax(0, JsSub(targetLineIndex, linesToRender \div 2))
        endLine == MathMin(total, JsAdd(start, linesToRender))
    IN  [startLine |-> IF JsLess(JsSub(endLine, start), linesToRender)
                       THEN MathMax(0, JsSub(endLine, linesToRender))
                       ELSE start,
         endLine   |-> endLine]

(* targetLineIndex of case 'getPreview'. *)
TargetLineIndex(line) == JsSub(ParseInt(line), 1)

InitWindow ==
    /\ workspaceFolders = TRUE
    /\ pc = "start"
    /\ searchTerm = Str0
    /\ rgProcess = "none"
    /\ events = << >>
    /\ stdoutData = Str0
    /\ stderrData = Str0
    /\ nChunks = 0
    /\ nBursts = 0
    /\ promise = [state |-> "none"]
    /\ outbox = << >>
    /\ spawns = 0
    /\ previewLine \in PreviewLines
    /\ totalLines \in 1..MaxTotalLines
    /\ window = null
    /\ HandlerIdle
    /\ SurfaceIdle
    /\ HostIdle

(* The window of a preview of line previewLine in a file of totalLines    *)
(* lines.                                                                  *)
ComputeWindow ==
    /\ window = null
    /\ window' = PreviewWindow(TargetLineIndex(previewLine), totalLines)
    /\ UNCHANGED <<searchVars, previewLine, totalLines, handlerVars, surfaceVars,
                   hostVars>>

NextWindow == ComputeWindow

SpecWindow == InitWindow /\ [][NextWindow]_vars

(***************************************************************************)
(* case 'getPreview': the whole handler                                    *)
(***************************************************************************)
LowerLetters ==
    <<"a", "b", "c", "d", "e", "f", "g", "h", "i", "j", "k", "l", "m",
      "n", "o", "p", "q", "r", "s", "t", "u", "v", "w", "x", "y", "z">>

UpperLetters ==
    <<"A", "B", "C", "D", "E", "F", "G", "H", "I", "J", "K", "L", "M",
      "N", "O", "P", "Q", "R", "S", "T", "U", "V", "W", "X", "Y", "Z">>

(* Case folding of the flag i of the regular expression. *)
ToLower(c) ==
    IF \E k \in 1..26 : c = UpperLetters[k]
    THEN LowerLetters[CHOOSE k \in 1..26 : c = UpperLetters[k]]
    ELSE c

(* path.extname: from the last dot of the last path component to its end; *)
(* empty when that component has no dot, starts with its only dot, or is   *)
(* "..".                                                                   *)
PathExtname(p) ==
    LET base == PathBasename(p)
        dots == {i \in 1..Len(base) : base[i] = "."}
    IN  IF dots = {} THEN Str0
        ELSE LET startDot == CHOOSE x \in dots : \A y \in dots : y <= x
             IN  IF startDot = 1 \/ base = <<".", ".">> THEN Str0
                 ELSE SubSeq(base, startDot, Len(base))

(* The cases of the switch of getLangId that name an extension. *)
LangCases ==
    {<<<<"j", "s">>, "javascript">>,
     <<<<"m", "j", "s">>, "javascript">>,
     <<<<"c", "j", "s">>, "javascript">>,
     <<<<"j", "s", "x">>, "jsx">>,
     <<<<"t", "s">>, "typescript">>,
     <<<<"m", "t", "s">>, "typescript">>,
     <<<<"c", "t", "s">>, "typescript">>,
     <<<<"t", "s", "x">>, "tsx">>,
     <<<<"h", "t", "m", "l">>, "html">>,
     <<<<"h", "t", "m">>, "html">>,
     <<<<"c", "s", "s">>, "css">>,
     <<<<"s", "c", "s", "s">>, "scss">>,
     <<<<"l", "e", "s", "s">>, "less">>,
     <<<<"j", "s", "o", "n">>, "json">>,
     <<<<"x", "m", "l">>, "xml">>,
     <<<<"s", "v", "g">>, "xml">>,
     <<<<"j", "s", "o", "n", "c">>, "jsonc">>,
     <<<<"p", "y">>, "python">>,
     <<<<"p", "y", "w">>, "python">>,
     <<<<"j", "a", "v", "a">>, "java">>,
     <<<<"j", "a", "r">>, "java">>,
     <<<<"c", "s">>, "csharp">>,
     <<<<"g", "o">>, "go">>,
     <<<<"p", "h", "p">>, "php">>,
     <<<<"r", "b">>, "ruby">>,
     <<<<"r", "s">>, "rust">>,
     <<<<"k", "t">>, "kotlin">>,
     <<<<"k", "t", "s">>, "kotlin">>,
     <<<<"s", "w", "i", "f", "t">>, "swift">>,
     <<<<"d", "a", "r", "t">>, "dart">>,
     <<<<"c">>, "c">>,
     <<<<"h">>, "c">>,
     <<<<"c", "p", "p">>, "cpp">>,
     <<<<"h", "p", "p">>, "cpp">>,
     <<<<"c", "c">>, "cpp">>,
     <<<<"c", "x", "x">>, "cpp">>,
     <<<<"s", "h">>, "bash">>,
     <<<<"b", "a", "s", "h">>, "bash">>,
     <<<<"p", "s", "1">>, "powershell">>,
     <<<<"b", "a", "t">>, "bat">>,
     <<<<"p", "l">>, "perl">>,
     <<<<"l", "u", "a">>, "lua">>,
     <<<<"r">>, "r">>,
     <<<<"s", "q", "l">>, "sql">>,
     <<<<"m", "d">>, "markdown">>,
     <<<<"m", "a", "r", "k", "d", "o", "w", "n">>, "markdown">>,
     <<<<"y", "a", "m", "l">>, "yaml">>,
     <<<<"y", "m", "l">>, "yaml">>,
     <<<<"t", "o", "m", "l">>, "toml">>,
     <<<<"i", "n", "i">>, "ini">>,
     <<<<"e", "n", "v">>, "dotenv">>,
     <<<<"d", "o", "c", "k", "e", "r", "f", "i", "l", "e">>, "docker">>,
     <<<<"D", "o", "c", "k", "e", "r", "f", "i", "l", "e">>, "docker">>,
     <<<<"d", "i", "f", "f">>, "diff">>,
     <<<<"l", "o", "g">>, "log">>}

(* getLangId with the extension folded to lower case before the switch. *)
getLangIdIgnoreCase(filePath) ==
    LET raw == SliceFrom(PathExtname(filePath), 1)
        ext == [i \in 1..Len(raw) |-> ToLower(raw[i])]
        hit == {c \in LangCases : c[1] = ext}
    IN  IF hit = {} THEN "text" ELSE (CHOOSE c \in hit : TRUE)[2]

(* getLangId: the extension without its dot, the switch over it, and the  *)
(* default of the switch.                                                  *)
getLangId(filePath) ==
    LET ext == SliceFrom(PathExtname(filePath), 1)
        hit == {c \in LangCases : c[1] = ext}
    IN  IF hit = {} THEN "text" ELSE (CHOOSE c \in hit : TRUE)[2]

(* highlighter.codeToTokens(...).tokens, by its contract: one token line   *)
(* per line of the text, each a sequence of {content, color} whose         *)
(* contents concatenate to the line.  A token here is a maximal run of     *)
(* blanks or of other characters; its color depends on the language and    *)
(* the theme.  A color is a sequence of strings.                           *)
TokenizeLine(line, lang, theme) ==
    LET starts == {i \in 1..Len(line) :
                      i = 1 \/ IsSpace(line[i]) # IsSpace(line[i - 1])}
        n      == Cardinality(starts)
        nth[k \in 1..n] ==
            IF k = 1 THEN 1 ELSE SetMin({i \in starts : i > nth[k - 1]})
    IN  [k \in 1..n |->
            [content |-> SubSeq(line, nth[k],
                                IF k = n THEN Len(line) ELSE nth[k + 1] - 1),
             color   |-> <<theme, lang>>]]

codeToTokens(code, lang, theme) ==
    LET lines == Split(code, "\n")
    IN  [k \in 1..Len(lines) |-> TokenizeLine(lines[k], lang, theme)]

(* An element of new Array(totalLines) that was never assigned. *)
undefined == <<[undefined |-> TRUE]>>

(* Step 4 of case 'getPreview' without the placeholders after the window. *)
StitchNoTail(total, startLine, endLine, visibleTokenLines) ==
    [k \in 1..total |->
        LET i == k - 1
        IN  IF startLine <= i /\ i < startLine + Len(visibleTokenLines)
            THEN visibleTokenLines[i - startLine + 1]
            ELSE IF i < startLine THEN << >> ELSE undefined]

(* Step 4 of case 'getPreview': the table of totalLines entries, empty    *)
(* before startLine, the tokenized lines from startLine on, empty from     *)
(* endLine on.  Element k of the sequence is tokenLines[k - 1]; a later    *)
(* loop overwrites an earlier one, and an assignment past the end          *)
(* lengthens the array.                                                    *)
Stitch(total, startLine, endLine, visibleTokenLines) ==
    LET n      == Len(visibleTokenLines)
        length == IF IsNaN(startLine) THEN total ELSE Max(total, startLine + n)
    IN  [k \in 1..length |->
            LET i == k - 1
            IN  IF ~IsNaN(endLine) /\ endLine <= i /\ i < total THEN << >>
                ELSE IF ~IsNaN(startLine) /\ startLine <= i /\ i < startLine + n
                     THEN visibleTokenLines[i - startLine + 1]
                     ELSE IF JsLess(i, startLine) THEN << >> ELSE undefined]

(* allLines.slice(startLine, endLine): NaN counts as 0. *)
SliceLines(allLines, startLine, endLine) ==
    Slice(allLines, IF IsNaN(startLine) THEN 0 ELSE startLine,
                    IF IsNaN(endLine) THEN 0 ELSE endLine)

(* The message posted by the catch block of case 'getPreview'. *)
ErrorPreview(message) ==
    [command |-> "previewContent",
     data    |-> [tokenLines |-> <<<<[content |-> <<"File Cant Read:\n", message>>,
                                      color   |-> <<"#FF0000">>]>>>>,
                  line       |-> 0,
                  searchTerm |-> Str0]]

(* The message posted at the end of the try block of case 'getPreview'. *)
PreviewContent(tokenLines, line, term) ==
    [command |-> "previewContent",
     data    |-> [tokenLines |-> tokenLines,
                  line       |-> ParseInt(line),
                  searchTerm |-> term]]

ShortFileLines == 3

LongFileLines == 98

MaxFileLines == 103

(* The lengths of the files of the model: a few short ones, and the ones   *)
(* around linesToRender.                                                   *)
FileLengths == (1..ShortFileLines) \cup (LongFileLines..MaxFileLines)

MaxHandlerLine == 106

(* Line i of a file of the model: every fifth line is empty, so a file     *)
(* whose last line is one of them ends with a line terminator.             *)
SourceLine(i) == IF i % 5 = 4 THEN Str0 ELSE <<"a", " ">> \o NumToStr(i)

FileOf(n) == Join([k \in 1..n |-> SourceLine(k - 1)], <<"\n">>)

(* What fs.readFile and decoding give: the text of the file, or the error  *)
(* thrown.                                                                 *)
Files ==
    {[content |-> FileOf(n)] : n \in FileLengths}
        \cup {[content |-> Str0], [error |-> "ENOENT: no such file or directory"]}

HandlerLines == {NumToStr(n) : n \in 0..MaxHandlerLine} \cup {Str0}

FilePaths == {<<"/", "w", "/", "a", ".", "t", "s">>,
              <<"/", "w", "/", "b", ".", "z", "z", "z">>,
              Str0}

PreviewTerms == {<<"f", "f", "f">>}

Themes == {"vitesse-dark", "vitesse-light"}

(* The languages createHighlighter is given. *)
PreloadedLangs ==
    {"javascript", "jsx", "typescript", "tsx", "html", "css", "json",
     "markdown", "text"}

(* What the engine does with one request: it loads the language and        *)
(* tokenizes, or fails to load the language, or fails to load 'text' as    *)
(* well, or fails to tokenize.                                             *)
EngineOutcomes == {"ok", "noLang", "noText", "noTokens"}

EngineError == "engine failure"

Post(message) == outbox' = Append(outbox, message)

(* case 'getPreview' for message.data = {filePath, line: previewLine,     *)
(* searchTerm: term}.                                                      *)
GetPreview(filePath, term, outcome) ==
    /\ outbox = << >>
    /\ IF filePath = Str0 \/ previewLine = Str0 \/ highlighter = null
       THEN UNCHANGED vars
       ELSE /\ UNCHANGED <<workspaceFolders, pc, searchTerm, rgProcess, events,
                           stdoutData, stderrData, nChunks, nBursts, promise,
                           spawns, previewLine, fileContent, currentTheme,
                           surfaceVars, hostVars>>
            /\ IF "error" \in DOMAIN fileContent
               THEN /\ Post(ErrorPreview(fileContent.error))
                    /\ UNCHANGED <<totalLines, window, highlighter>>
               ELSE LET allLines == Split(fileContent.content, "\n")
                        total    == Len(allLines)
                        w        == PreviewWindow(TargetLineIndex(previewLine), total)
                        visibleLines   == SliceLines(allLines, w.startLine, w.endLine)
                        visibleContent == Join(visibleLines, <<"\n">>)
                        lang     == IF outcome \in {"ok", "noTokens"}
                                    THEN getLangId(filePath) ELSE "text"
                    IN  /\ totalLines' = total
                        /\ window' = w
                        /\ highlighter' =
                               IF outcome = "noText" THEN highlighter
                               ELSE [langs |-> highlighter.langs \cup {lang}]
                        /\ IF outcome \in {"noText", "noTokens"}
                           THEN Post(ErrorPreview(EngineError))
                           ELSE Post(PreviewContent(
                                    Stitch(total, w.startLine, w.endLine,
                                           codeToTokens(visibleContent, lang,
                                                        currentTheme)),
                                    previewLine, term))

InitPreview ==
    /\ workspaceFolders = TRUE
    /\ pc = "start"
    /\ searchTerm = Str0
    /\ rgProcess = "none"
    /\ events = << >>
    /\ stdoutData = Str0
    /\ stderrData = Str0
    /\ nChunks = 0
    /\ nBursts = 0
    /\ promise = [state |-> "none"]
    /\ outbox = << >>
    /\ spawns = 0
    /\ previewLine \in HandlerLines
    /\ totalLines = 0
    /\ window = null
    /\ fileContent \in Files
    /\ highlighter \in {null, [langs |-> PreloadedLangs]}
    /\ currentTheme \in Themes
    /\ SurfaceIdle
    /\ HostIdle

NextPreview ==
    \E filePath \in FilePaths, term \in PreviewTerms, outcome \in EngineOutcomes :
        GetPreview(filePath, term, outcome)

SpecPreview == InitPreview /\ [][NextPreview]_vars

(***************************************************************************)
(* The webview script: result list, selection, timers and preview          *)
(***************************************************************************)
MaxSent == 1

MaxTimers == 4

(* The values an input event leaves in the search box. *)
SurfaceTerms == {Str0, <<"f", "f">>, <<"f", "f", "f">>}

(* The result sets a 'results' message carries: what runRipgrep returns    *)
(* for no output, for two matches, and for no folder.                      *)
OutputTwo ==
    ChunkDirMatch \o ChunkWord \o ChunkNewline
        \o ChunkMatch \o ChunkWord \o ChunkNewline

MaxResults == 2

ResultSets == <<ParseStdout(Str0), ParseStdout(OutputTwo), <<NoFolderResult>>>>

ResultSet(k) == ResultSets[k]

ErrorTexts == {"Ripgrep Error"}

(* <p class="info-text">...</p> *)
InfoText(text) == [class |-> "info-text", text |-> text]

(* The element results.forEach builds for one result: dataset values are   *)
(* strings.                                                                *)
FileItem(result, index) ==
    [class       |-> "file-item",
     selected    |-> FALSE,
     dataset     |-> [index    |-> NumToStr(index),
                      filePath |-> result.filePath,
                      line     |-> NumToStr(result.line)],
     label       |-> result.label,
     description |-> result.description]

IsFileItem(element) == element.class = "file-item"

(* filesDiv.querySelectorAll('.file-item'), as positions in the list. *)
FileItems(div) ==
    LET at == {k \in 1..Len(div) : IsFileItem(div[k])}
    IN  [j \in 1..Cardinality(at) |->
            CHOOSE k \in at : Cardinality({m \in at : m < k}) = j - 1]

(* items[index] of a NodeList: the element, or nothing out of range. *)
HasItem(div, index) == index \in 0..(Len(FileItems(div)) - 1)

ItemAt(div, index) == div[FileItems(div)[index + 1]]

(* filesDiv.querySelector('.file-item.selected') *)
SelectedItems(div) == {k \in 1..Len(div) : IsFileItem(div[k]) /\ div[k].selected}

(* The class changes of highlightSelectedItem: 'selected' is removed from  *)
(* every item and added to items[index] when there is one.                 *)
Highlighted(div, index) ==
    [k \in 1..Len(div) |->
        IF IsFileItem(div[k])
        THEN [div[k] EXCEPT !.selected =
                 HasItem(div, index) /\ FileItems(div)[index + 1] = k]
        ELSE div[k]]

(* clearTimeout that clears nothing. *)
ClearTimeoutNothing(pending, handle) == pending

(* clearTimeout(handle): a handle of no pending timer clears nothing. *)
ClearTimeout(pending, handle) == {t \in pending : t.id # handle}

(* The handle setTimeout returns: one that no pending timer has and that   *)
(* neither variable holds.                                                 *)
FreshHandles(pending) ==
    (1..MaxTimers) \ ({t.id : t \in pending}
                         \cup {previewDebounceTimer, searchDebounceTimer})

NewHandle(pending) == SetMin(FreshHandles(pending))

(* vscode.postMessage *)
Send(message) == sent' = Append(sent, message)

GetPreviewMessage(dataset) ==
    [command |-> "getPreview",
     data    |-> [filePath   |-> dataset.filePath,
                  line       |-> dataset.line,
                  searchTerm |-> searchBox]]

OpenFileMessage(dataset) ==
    [command |-> "openFile", filePath |-> dataset.filePath, line |-> dataset.line]

SearchMessage(term) == [command |-> "search", text |-> term]

(* The preview: case 'previewContent' of the message listener. *)
(* The character class [a-zA-Z0-9_]. *)
IsWordChar(c) ==
    \/ IsDigit(c)
    \/ c = "_"
    \/ \E k \in 1..26 : c = LowerLetters[k] \/ c = UpperLetters[k]

(* searchTerm.split(/[^a-zA-Z0-9_]+/).filter(Boolean): the maximal runs of *)
(* word characters.                                                        *)
SearchWords(term) ==
    LET starts == {i \in 1..Len(term) :
                      IsWordChar(term[i]) /\ (i = 1 \/ ~IsWordChar(term[i - 1]))}
    IN  {SubSeq(term, i,
                SetMin({j \in i..Len(term) :
                           j = Len(term) \/ ~IsWordChar(term[j + 1])})) :
             i \in starts}

(* highlightRegex matches somewhere in the content. *)
RegexMatches(words, content) ==
    \E w \in words : \E i \in 1..(Len(content) - Len(w) + 1) :
        \A j \in 1..Len(w) : ToLower(content[i + j - 1]) = ToLower(w[j])

(* singleLineHeight, from the computed line height and font size in       *)
(* pixels; NaN for a value parseFloat cannot read, such as 'normal'.       *)
SingleLineHeight(layout) ==
    IF IsNaN(layout.lineHeight) \/ layout.lineHeight = 0
    THEN LET fontSize == IF IsNaN(layout.fontSize) \/ layout.fontSize = 0
                         THEN 14 ELSE layout.fontSize
         IN  (14 * fontSize + 5) \div 10
    ELSE layout.lineHeight

(* totalLinesToRender: 1.5 times the lines the panel shows, at least 40. *)
TotalLinesToRender(layout) ==
    LET h == SingleLineHeight(layout)
    IN  Max(40, (3 * layout.panelHeight + 2 * h - 1) \div (2 * h))

(* PaintWindow without the clamp of endLine to the length of the table. *)
PaintWindowNoEndClamp(line, total, totalLinesToRender) ==
    LET targetLineIndex == line - 1
        start0 == targetLineIndex - (totalLinesToRender \div 2)
        end0   == start0 + totalLinesToRender
    IN  [startLine |-> IF start0 < 0 THEN 0 ELSE start0,
         endLine   |-> IF start0 < 0 THEN Min(total, end0 + (0 - start0)) ELSE end0]

(* startLine and endLine of the rows painted. *)
PaintWindow(line, total, totalLinesToRender) ==
    LET targetLineIndex == line - 1
        start0 == targetLineIndex - (totalLinesToRender \div 2)
        end0   == start0 + totalLinesToRender
        start1 == IF start0 < 0 THEN 0 ELSE start0
        end1   == IF start0 < 0 THEN Min(total, end0 + (0 - start0)) ELSE end0
    IN  [startLine |-> IF end1 > total THEN Max(0, start1 - (end1 - total))
                       ELSE start1,
         endLine   |-> IF end1 > total THEN total ELSE end1]

(* One span of a painted row. *)
PaintToken(token, words) ==
    [color   |-> token.color,
     content |-> token.content,
     marked  |-> words # {} /\ token.content # Str0
                     /\ RegexMatches(words, token.content)]

(* The rows appended to the preview; none when reading a line of the      *)
(* table throws, since the rows are attached after the loop.               *)
Paint(data, layout) ==
    LET total  == Len(data.tokenLines)
        words  == IF data.searchTerm = Str0 THEN {} ELSE SearchWords(data.searchTerm)
        w      == PaintWindow(data.line, total, TotalLinesToRender(layout))
        lines  == w.startLine..(w.endLine - 1)
    IN  IF \E i \in lines : i >= total \/ data.tokenLines[i + 1] = undefined
        THEN << >>
        ELSE [k \in 1..(w.endLine - w.startLine) |->
                LET i == w.startLine + k - 1
                IN  [number    |-> NumToStr(i + 1),
                     spans     |-> [j \in 1..Len(data.tokenLines[i + 1]) |->
                                       PaintToken(data.tokenLines[i + 1][j], words)],
                     highlight |-> i = data.line - 1]]

Layouts ==
    {[lineHeight |-> 20, fontSize |-> 14, panelHeight |-> 300],
     [lineHeight |-> NaN, fontSize |-> 14, panelHeight |-> 900]}

(* The 'previewContent' messages of the model: the one of a failure, and  *)
(* one for a short file.                                                   *)
SurfacePreviews ==
    <<ErrorPreview("ENOENT: no such file or directory"),
      PreviewContent(codeToTokens(FileOf(ShortFileLines), "text", "vitesse-dark"),
                     <<"2">>, <<"A", ".", "1">>)>>

SurfacePreview(k) == SurfacePreviews[k]

backendVars == <<searchVars, previewVars, handlerVars, hostVars>>

(* highlightSelectedItem(items) for the items of div, once selectedIndex   *)
(* has the value index and the preview shows the rows given.               *)
HighlightSelectedItem(div, index, preview) ==
    LET cleared == ClearTimeout(timers, previewDebounceTimer)
    IN  /\ filesDiv' = Highlighted(div, index)
        /\ IF HasItem(div, index)
           THEN /\ FreshHandles(cleared) # {}
                /\ previewDebounceTimer' = NewHandle(cleared)
                /\ timers' = cleared \cup
                       {[id      |-> NewHandle(cleared),
                         kind    |-> "preview",
                         age     |-> 0,
                         payload |-> ItemAt(div, index).dataset]}
                /\ previewDiv' = preview
           ELSE /\ previewDebounceTimer' = previewDebounceTimer
                /\ timers' = cleared
                /\ previewDiv' = << >>

(* The 'input' listener without its clearTimeout. *)
InputNoClear(value) ==
    /\ searchBox' = value
    /\ IF value = Str0
       THEN /\ filesDiv' = << >>
            /\ previewDiv' = << >>
            /\ UNCHANGED <<timers, searchDebounceTimer>>
       ELSE /\ FreshHandles(timers) # {}
            /\ searchDebounceTimer' = NewHandle(timers)
            /\ timers' = timers \cup
                   {[id      |-> NewHandle(timers),
                     kind    |-> "search",
                     age     |-> 0,
                     payload |-> value]}
            /\ UNCHANGED <<filesDiv, previewDiv>>
    /\ UNCHANGED <<backendVars, selectedIndex, previewDebounceTimer, sent>>

(* The 'input' listener of the search box. *)
Input(value) ==
    LET cleared == ClearTimeout(timers, searchDebounceTimer)
    IN  /\ searchBox' = value
        /\ IF value = Str0
           THEN /\ filesDiv' = << >>
                /\ previewDiv' = << >>
                /\ timers' = cleared
                /\ UNCHANGED searchDebounceTimer
           ELSE /\ FreshHandles(cleared) # {}
                /\ searchDebounceTimer' = NewHandle(cleared)
                /\ timers' = cleared \cup
                       {[id      |-> NewHandle(cleared),
                         kind    |-> "search",
                         age     |-> 0,
                         payload |-> value]}
                /\ UNCHANGED <<filesDiv, previewDiv>>
        /\ UNCHANGED <<backendVars, selectedIndex, previewDebounceTimer, sent>>

(* ArrowUp without the check against 0. *)
ArrowUpNoClamp ==
    IF Len(FileItems(filesDiv)) = 0 THEN UNCHANGED vars
    ELSE /\ selectedIndex' = selectedIndex - 1
         /\ HighlightSelectedItem(filesDiv, selectedIndex', previewDiv)
         /\ UNCHANGED <<backendVars, searchBox, searchDebounceTimer, sent>>

(* The 'keydown' listener, key ArrowUp. *)
ArrowUp ==
    IF Len(FileItems(filesDiv)) = 0 THEN UNCHANGED vars
    ELSE /\ selectedIndex' = IF selectedIndex - 1 < 0 THEN 0 ELSE selectedIndex - 1
         /\ HighlightSelectedItem(filesDiv, selectedIndex', previewDiv)
         /\ UNCHANGED <<backendVars, searchBox, searchDebounceTimer, sent>>

(* ArrowDown without the check against the number of items. *)
ArrowDownNoClamp ==
    IF Len(FileItems(filesDiv)) = 0 THEN UNCHANGED vars
    ELSE /\ selectedIndex' = selectedIndex + 1
         /\ HighlightSelectedItem(filesDiv, selectedIndex', previewDiv)
         /\ UNCHANGED <<backendVars, searchBox, searchDebounceTimer, sent>>

(* The 'keydown' listener, key ArrowDown. *)
ArrowDown ==
    IF Len(FileItems(filesDiv)) = 0 THEN UNCHANGED vars
    ELSE /\ selectedIndex' = IF selectedIndex + 1 >= Len(FileItems(filesDiv))
                             THEN Len(FileItems(filesDiv)) - 1
                             ELSE selectedIndex + 1
         /\ HighlightSelectedItem(filesDiv, selectedIndex', previewDiv)
         /\ UNCHANGED <<backendVars, searchBox, searchDebounceTimer, sent>>

(* Enter that opens the first item instead of the selected one. *)
EnterFirstItem ==
    IF Len(FileItems(filesDiv)) = 0 \/ ~HasItem(filesDiv, selectedIndex)
    THEN UNCHANGED vars
    ELSE /\ Len(sent) < MaxSent
         /\ Send(OpenFileMessage(ItemAt(filesDiv, 0).dataset))
         /\ UNCHANGED <<backendVars, searchBox, filesDiv, previewDiv, selectedIndex,
                        previewDebounceTimer, searchDebounceTimer, timers>>

(* The 'keydown' listener, key Enter. *)
Enter ==
    IF Len(FileItems(filesDiv)) = 0 \/ ~HasItem(filesDiv, selectedIndex)
    THEN UNCHANGED vars
    ELSE /\ Len(sent) < MaxSent
         /\ Send(OpenFileMessage(ItemAt(filesDiv, selectedIndex).dataset))
         /\ UNCHANGED <<backendVars, searchBox, filesDiv, previewDiv, selectedIndex,
                        previewDebounceTimer, searchDebounceTimer, timers>>

(* The 'click' listener without the comparison with selectedIndex: every  *)
(* click on an item opens it.                                              *)
ClickAlwaysOpens(target) ==
    IF target = 0 THEN UNCHANGED vars
    ELSE /\ target \in 1..Len(filesDiv)
         /\ IsFileItem(filesDiv[target])
         /\ Len(sent) < MaxSent
         /\ Send(OpenFileMessage(filesDiv[target].dataset))
         /\ UNCHANGED <<backendVars, searchBox, filesDiv, previewDiv,
                        selectedIndex, previewDebounceTimer,
                        searchDebounceTimer, timers>>

(* The 'click' listener of the result list; target is the position in the *)
(* list of the item the click is in, 0 when it is in none.                 *)
Click(target) ==
    IF target = 0 THEN UNCHANGED vars
    ELSE /\ target \in 1..Len(filesDiv)
         /\ IsFileItem(filesDiv[target])
         /\ LET clickedItem == filesDiv[target]
                newIndex    == ParseInt(clickedItem.dataset.index)
            IN  IF newIndex = selectedIndex
                THEN /\ Len(sent) < MaxSent
                     /\ Send(OpenFileMessage(clickedItem.dataset))
                     /\ UNCHANGED <<backendVars, searchBox, filesDiv, previewDiv,
                                    selectedIndex, previewDebounceTimer,
                                    searchDebounceTimer, timers>>
                ELSE /\ selectedIndex' = newIndex
                     /\ HighlightSelectedItem(filesDiv, newIndex, previewDiv)
                     /\ UNCHANGED <<backendVars, searchBox, searchDebounceTimer, sent>>

(* case 'results' that keeps the selection index when there are results. *)
RecvResultsKeepIndex(results) ==
    /\ IF Len(results) = 0
       THEN /\ selectedIndex' = 0 - 1
            /\ HighlightSelectedItem(<<InfoText(<<"No results found.">>)>>,
                                     selectedIndex', << >>)
       ELSE /\ selectedIndex' = selectedIndex
            /\ HighlightSelectedItem(
                   [k \in 1..Len(results) |-> FileItem(results[k], k - 1)],
                   selectedIndex', << >>)
    /\ UNCHANGED <<hostSide, searchBox, searchDebounceTimer, sent>>

(* case 'results' that keeps the selection index when there are none. *)
RecvResultsEmptyKeepsIndex(results) ==
    /\ IF Len(results) = 0
       THEN /\ selectedIndex' = selectedIndex
            /\ HighlightSelectedItem(<<InfoText(<<"No results found.">>)>>,
                                     0 - 1, << >>)
       ELSE /\ selectedIndex' = 0
            /\ HighlightSelectedItem(
                   [k \in 1..Len(results) |-> FileItem(results[k], k - 1)],
                   selectedIndex', << >>)
    /\ UNCHANGED <<hostSide, searchBox, searchDebounceTimer, sent>>

(* case 'results' that leaves a list of items as it is. *)
RecvResultsKeepsList(results) ==
    IF Len(FileItems(filesDiv)) > 0
    THEN UNCHANGED <<hostSide, surfaceVars>>
    ELSE /\ IF Len(results) = 0
            THEN /\ selectedIndex' = 0 - 1
                 /\ HighlightSelectedItem(<<InfoText(<<"No results found.">>)>>,
                                          selectedIndex', << >>)
            ELSE /\ selectedIndex' = 0
                 /\ HighlightSelectedItem(
                        [k \in 1..Len(results) |-> FileItem(results[k], k - 1)],
                        selectedIndex', << >>)
         /\ UNCHANGED <<hostSide, searchBox, searchDebounceTimer, sent>>

(* case 'results' of the message listener. *)
RecvResults(results) ==
    /\ IF Len(results) = 0
       THEN /\ selectedIndex' = 0 - 1
            /\ HighlightSelectedItem(<<InfoText(<<"No results found.">>)>>,
                                     selectedIndex', << >>)
       ELSE /\ selectedIndex' = 0
            /\ HighlightSelectedItem(
                   [k \in 1..Len(results) |-> FileItem(results[k], k - 1)],
                   selectedIndex', << >>)
    /\ UNCHANGED <<hostSide, searchBox, searchDebounceTimer, sent>>

(* case 'error' of the message listener. *)
RecvError(text) ==
    /\ filesDiv' = <<InfoText(<<"Error: ", text>>)>>
    /\ UNCHANGED <<hostSide, searchBox, previewDiv, selectedIndex,
                   previewDebounceTimer, searchDebounceTimer, timers, sent>>

(* case 'previewContent' of the message listener. *)
RecvPreviewContent(message, layout) ==
    /\ previewDiv' = Paint(message.data, layout)
    /\ UNCHANGED <<hostSide, searchBox, filesDiv, selectedIndex,
                   previewDebounceTimer, searchDebounceTimer, timers, sent>>

(* case 'themeChanged' asking for the first item of the list. *)
RecvThemeChangedFirstItem ==
    IF SelectedItems(filesDiv) = {} THEN UNCHANGED <<hostSide, surfaceVars>>
    ELSE /\ Len(sent) < MaxSent
         /\ Send(GetPreviewMessage(ItemAt(filesDiv, 0).dataset))
         /\ UNCHANGED <<hostSide, searchBox, filesDiv, previewDiv, selectedIndex,
                        previewDebounceTimer, searchDebounceTimer, timers>>

(* case 'themeChanged' of the message listener. *)
RecvThemeChanged ==
    IF SelectedItems(filesDiv) = {} THEN UNCHANGED <<hostSide, surfaceVars>>
    ELSE /\ Len(sent) < MaxSent
         /\ Send(GetPreviewMessage(filesDiv[SetMin(SelectedItems(filesDiv))].dataset))
         /\ UNCHANGED <<hostSide, searchBox, filesDiv, previewDiv, selectedIndex,
                        previewDebounceTimer, searchDebounceTimer, timers>>

(* The callback of a pending timer runs. *)
TimerFires(t) ==
    /\ t \in timers
    /\ Len(sent) < MaxSent
    /\ timers' = timers \ {t}
    /\ Send(IF t.kind = "search" THEN SearchMessage(t.payload)
            ELSE GetPreviewMessage(t.payload))
    /\ UNCHANGED <<backendVars, searchBox, filesDiv, previewDiv, selectedIndex,
                   previewDebounceTimer, searchDebounceTimer>>

(* The extension host takes the oldest message the webview posted. *)
Deliver ==
    /\ sent # << >>
    /\ sent' = Tail(sent)
    /\ UNCHANGED <<backendVars, searchBox, filesDiv, previewDiv, selectedIndex,
                   previewDebounceTimer, searchDebounceTimer, timers>>

InitSurface ==
    /\ workspaceFolders = TRUE
    /\ pc = "start"
    /\ searchTerm = Str0
    /\ rgProcess = "none"
    /\ events = << >>
    /\ stdoutData = Str0
    /\ stderrData = Str0
    /\ nChunks = 0
    /\ nBursts = 0
    /\ promise = [state |-> "none"]
    /\ outbox = << >>
    /\ spawns = 0
    /\ previewLine = Str0
    /\ totalLines = 0
    /\ window = null
    /\ HandlerIdle
    /\ SurfaceIdle
    /\ HostIdle

NextSurface ==
    \/ \E value \in SurfaceTerms : Input(value)
    \/ ArrowUp
    \/ ArrowDown
    \/ Enter
    \/ \E target \in 0..MaxResults : Click(target)
    \/ \E k \in DOMAIN ResultSets : RecvResults(ResultSet(k)) /\ UNCHANGED outbox
    \/ \E text \in ErrorTexts : RecvError(text) /\ UNCHANGED outbox
    \/ \E k \in DOMAIN SurfacePreviews, layout \in Layouts :
          RecvPreviewContent(SurfacePreview(k), layout) /\ UNCHANGED outbox
    \/ RecvThemeChanged /\ UNCHANGED outbox
    \/ \E t \in timers : TimerFires(t)
    \/ Deliver

SpecSurface == InitSurface /\ [][NextSurface]_vars

(***************************************************************************)
(* The webview's timers with time.  Time passes in steps of TickMs         *)
(* milliseconds; the callback of setTimeout(f, delay) runs no earlier than *)
(* delay after the call, and at most MaxLateTicks steps late.              *)
(***************************************************************************)
PREVIEW_DEBOUNCE_DELAY == 50

SEARCH_DEBOUNCE_DELAY == 150

TickMs == 50

MaxLateTicks == 1

Delay(kind) ==
    IF kind = "search" THEN SEARCH_DEBOUNCE_DELAY ELSE PREVIEW_DEBOUNCE_DELAY

(* Whether the delay of timer t has passed. *)
Due(t) == t.age * TickMs >= Delay(t.kind)

(* TickMs milliseconds pass. *)
Tick ==
    /\ \A t \in timers : (t.age - MaxLateTicks) * TickMs < Delay(t.kind)
    /\ timers' = {[t EXCEPT !.age = @ + 1] : t \in timers}
    /\ UNCHANGED <<backendVars, searchBox, filesDiv, previewDiv, selectedIndex,
                   previewDebounceTimer, searchDebounceTimer, sent>>

(* The callback of a timer whose delay has passed runs. *)
TimerRuns(t) ==
    /\ Due(t)
    /\ TimerFires(t)

(* The values the input events of a burst leave in the search box. *)
DebounceTerms == SurfaceTerms \cup {<<"f">>, <<"f", "g">>}

NextDebounce ==
    \/ \E value \in DebounceTerms : Input(value)
    \/ Tick
    \/ \E t \in timers : TimerRuns(t)
    \/ Deliver

(* Time passes, the browser runs the callbacks that are due and the        *)
(* extension host takes the messages posted to it.                         *)
SpecDebounce ==
    /\ InitSurface
    /\ [][NextDebounce]_vars
    /\ WF_vars(Tick)
    /\ WF_vars(\E t \in timers : TimerRuns(t))
    /\ WF_vars(Deliver)

(***************************************************************************)
(* The extension host: activate, the commands and the message listener of  *)
(* the panel, each handler call a job that stands at one of its awaits.    *)
(* The calls run interleaved on one thread: a call runs from one await to   *)
(* the next without interruption, and a synchronous call that does not     *)
(* return keeps the thread.                                                *)
(***************************************************************************)
MaxJobs == 2

(* What no handler of the host changes. *)
hostFrame == <<searchSide, previewVars, fileContent>>

(* A call of a handler for message, standing at the await named at. *)
Job(kind, message, at) ==
    [kind |-> kind, message |-> message, pc |-> at, lang |-> "text",
     posted |-> << >>]

(* The thread is inside codeToTokens, which has not returned. *)
Blocked == \E j \in DOMAIN jobs : jobs[j].pc = "codeToTokens"

HostReady == activation = "active" /\ ~Blocked

Start(job) == jobs' = Append(jobs, job)

(* panel.webview.postMessage by call j, which ends with it. *)
PostFrom(j, message) ==
    /\ outbox' = Append(outbox, message)
    /\ jobs' = [jobs EXCEPT ![j].pc = "done", ![j].posted = Append(@, message)]

Finish(j) == jobs' = [jobs EXCEPT ![j].pc = "done"]

Notice(level, text) ==
    notifications' = Append(notifications, [level |-> level, text |-> text])

AllLangs == [langs |-> PreloadedLangs]

(* activate: the stored theme, the import of shiki, createHighlighter and  *)
(* the registration of the commands.  createHighlighter is not in a try.   *)
Activate(importOk, createOk) ==
    /\ activation = "inactive"
    /\ currentTheme' = IF storedTheme = "undefined" THEN "vitesse-dark"
                       ELSE storedTheme
    /\ shiki' = importOk
    /\ IF importOk THEN UNCHANGED notifications
       ELSE Notice("error", <<"Failed to load Shiki library.">>)
    /\ highlighter' = IF highlighter = null /\ importOk /\ createOk THEN AllLangs
                      ELSE highlighter
    /\ activation' = IF importOk /\ ~createOk /\ highlighter = null THEN "failed"
                     ELSE "active"
    /\ UNCHANGED <<hostFrame, outbox, surfaceVars, currentPanel, panels, storedTheme,
                   documents, jobs>>

(* Telescope without the test of currentPanel: a panel is created by      *)
(* every call.                                                             *)
TelescopeAlwaysCreates(createOk) ==
    /\ HostReady
    /\ highlighter' = IF highlighter = null /\ shiki /\ createOk THEN AllLangs
                      ELSE highlighter
    /\ currentPanel' = TRUE
    /\ panels' = panels + 1
    /\ UNCHANGED <<hostFrame, outbox, surfaceVars, currentTheme, shiki, storedTheme,
                   notifications, documents, jobs, activation>>

(* The command vscode-telescope.telescope: the fallback creation of the    *)
(* highlighter, then the panel is revealed or created.                     *)
Telescope(createOk) ==
    /\ HostReady
    /\ highlighter' = IF highlighter = null /\ shiki /\ createOk THEN AllLangs
                      ELSE highlighter
    /\ currentPanel' = TRUE
    /\ panels' = IF currentPanel THEN panels ELSE panels + 1
    /\ UNCHANGED <<hostFrame, outbox, surfaceVars, currentTheme, shiki, storedTheme,
                   notifications, documents, jobs, activation>>

(* What rg writes for a term: two matches, whose text is the term. *)
StdoutFor(term) ==
    <<"a", ".", "t", "s", ":", "2", ":", "1", ":">> \o term \o <<"\n">>
        \o <<"b", ".", "t", "s", ":", "3", ":", "1", ":">> \o term \o <<"\n">>

(* How a search can end: rg exits with 0 after writing its match, or with *)
(* 2 after writing to stderr.                                              *)
SearchOutcomes == {"matches", "fails"}

(* What the promise of runRipgrep(term) is settled with: the placeholder   *)
(* without a folder, otherwise what the close handler makes of the output. *)
Settlement(term, outcome) ==
    IF ~workspaceFolders THEN Resolved(<<NoFolderResult>>)
    ELSE IF outcome = "matches" THEN Resolved(ParseStdout(StdoutFor(term)))
    ELSE Rejected(RipgrepError(<<"E">>, term))

(* case 'search', up to the await of runRipgrep, which spawns rg when a   *)
(* workspace folder is open.                                               *)
HandleSearch(message) ==
    /\ IF TooShort(message.text)
       THEN LET reply == [command |-> "results", data |-> << >>]
            IN  /\ outbox' = Append(outbox, reply)
                /\ Start([Job("search", message, "done") EXCEPT
                              !.posted = <<reply>>])
                /\ UNCHANGED spawns
       ELSE /\ Start(Job("search", message, "runRipgrep"))
            /\ spawns' = IF workspaceFolders THEN spawns + 1 ELSE spawns
            /\ UNCHANGED outbox
    /\ UNCHANGED <<workspaceFolders, pc, searchTerm, rgProcess, events, stdoutData,
                   stderrData, nChunks, nBursts, promise, previewVars, handlerVars,
                   shiki, currentPanel, panels, storedTheme, notifications, documents,
                   activation>>

(* case 'search', from the await on. *)
SearchSettles(j, outcome) ==
    /\ HostReady
    /\ j \in DOMAIN jobs
    /\ jobs[j].pc = "runRipgrep"
    /\ PostFrom(j, SearchReply(Settlement(jobs[j].message.text, outcome)))
    /\ UNCHANGED <<hostFrame, handlerVars, surfaceVars, shiki, currentPanel, panels,
                   storedTheme, notifications, documents, activation>>

(* case 'openFile', up to the await of showTextDocument. *)
HandleOpenFile(message) ==
    /\ Start(Job("openFile", message, "showTextDocument"))
    /\ UNCHANGED <<hostFrame, handlerVars, outbox, shiki, currentPanel, panels, storedTheme,
                   notifications, documents, activation>>

(* ShowSettles with the 1-based line of the message. *)
ShowSettlesOneBased(j, ok) ==
    /\ HostReady
    /\ j \in DOMAIN jobs
    /\ jobs[j].pc = "showTextDocument"
    /\ Finish(j)
    /\ IF ok
       THEN /\ documents' = Append(documents,
                   [filePath  |-> jobs[j].message.filePath,
                    line      |-> ParseInt(jobs[j].message.line),
                    character |-> 0,
                    preview   |-> FALSE])
            /\ UNCHANGED notifications
       ELSE /\ Notice("error", <<"File Can't Open: ", jobs[j].message.filePath>>)
            /\ UNCHANGED documents
    /\ UNCHANGED <<hostFrame, handlerVars, outbox, surfaceVars, shiki, currentPanel, panels,
                   storedTheme, activation>>

(* case 'openFile', from the await on: the document is shown, or the       *)
(* catch block shows the error message.                                    *)
ShowSettles(j, ok) ==
    /\ HostReady
    /\ j \in DOMAIN jobs
    /\ jobs[j].pc = "showTextDocument"
    /\ Finish(j)
    /\ IF ok
       THEN /\ documents' = Append(documents,
                   [filePath  |-> jobs[j].message.filePath,
                    line      |-> JsSub(ParseInt(jobs[j].message.line), 1),
                    character |-> 0,
                    preview   |-> FALSE])
            /\ UNCHANGED notifications
       ELSE /\ Notice("error", <<"File Can't Open: ", jobs[j].message.filePath>>)
            /\ UNCHANGED documents
    /\ UNCHANGED <<hostFrame, handlerVars, outbox, surfaceVars, shiki, currentPanel, panels,
                   storedTheme, activation>>

(* HandleGetPreview without the test of the highlighter. *)
HandleGetPreviewNoEngineTest(message) ==
    /\ IF \/ message.data.filePath = Str0
          \/ message.data.line = Str0
       THEN Start(Job("getPreview", message, "done"))
       ELSE Start(Job("getPreview", message, "readFile"))
    /\ UNCHANGED <<hostFrame, handlerVars, outbox, shiki, currentPanel, panels, storedTheme,
                   notifications, documents, activation>>

(* HandleGetPreview without the test of the file path. *)
HandleGetPreviewNoPathTest(message) ==
    /\ IF \/ message.data.line = Str0
          \/ highlighter = null
       THEN Start(Job("getPreview", message, "done"))
       ELSE Start(Job("getPreview", message, "readFile"))
    /\ UNCHANGED <<hostFrame, handlerVars, outbox, shiki, currentPanel, panels, storedTheme,
                   notifications, documents, activation>>

(* case 'getPreview', up to the await of readFile: lines 326-337. *)
HandleGetPreview(message) ==
    /\ IF \/ message.data.filePath = Str0
          \/ message.data.line = Str0
          \/ highlighter = null
       THEN Start(Job("getPreview", message, "done"))
       ELSE Start(Job("getPreview", message, "readFile"))
    /\ UNCHANGED <<hostFrame, handlerVars, outbox, shiki, currentPanel, panels, storedTheme,
                   notifications, documents, activation>>

(* ReadSettles without the catch block: a failed read ends the call. *)
ReadSettlesNoCatch(j) ==
    /\ HostReady
    /\ j \in DOMAIN jobs
    /\ jobs[j].pc = "readFile"
    /\ IF "error" \in DOMAIN fileContent
       THEN Finish(j) /\ UNCHANGED outbox
       ELSE /\ jobs' = [jobs EXCEPT
                           ![j].pc = "loadLanguage",
                           ![j].lang = getLangId(jobs[j].message.data.filePath)]
            /\ UNCHANGED outbox
    /\ UNCHANGED <<hostFrame, handlerVars, surfaceVars, shiki, currentPanel, panels,
                   storedTheme, notifications, documents, activation>>

(* case 'getPreview', from the await of readFile to the await of           *)
(* loadLanguage: lines 337-362.  A failed read goes to the catch block.    *)
ReadSettles(j) ==
    /\ HostReady
    /\ j \in DOMAIN jobs
    /\ jobs[j].pc = "readFile"
    /\ IF "error" \in DOMAIN fileContent
       THEN PostFrom(j, ErrorPreview(fileContent.error))
       ELSE /\ jobs' = [jobs EXCEPT
                           ![j].pc = "loadLanguage",
                           ![j].lang = getLangId(jobs[j].message.data.filePath)]
            /\ UNCHANGED outbox
    /\ UNCHANGED <<hostFrame, handlerVars, surfaceVars, shiki, currentPanel, panels,
                   storedTheme, notifications, documents, activation>>

(* Lines 339-357 and 370-398: the message with the token table of the      *)
(* lines around the target, tokenized for lang under theme.                *)
TokenTable(data, lang, theme) ==
    LET allLines == Split(fileContent.content, "\n")
        total    == Len(allLines)
        w        == PreviewWindow(TargetLineIndex(data.line), total)
        visibleLines   == SliceLines(allLines, w.startLine, w.endLine)
        visibleContent == Join(visibleLines, <<"\n">>)
    IN  PreviewContent(Stitch(total, w.startLine, w.endLine,
                              codeToTokens(visibleContent, lang, theme)),
                       data.line, data.searchTerm)

(* What codeToTokens does: it returns the tokens, throws, or does not      *)
(* return.                                                                 *)
TokenizeOutcomes == {"returns", "throws", "hangs"}

(* Lines 370-411 for call j: the theme is read, the text is tokenized and  *)
(* the table is posted, or the catch block posts the error.                *)
Tokenize(j, lang, outcome) ==
    IF outcome = "hangs"
    THEN /\ jobs' = [jobs EXCEPT ![j].pc = "codeToTokens", ![j].lang = lang]
         /\ UNCHANGED outbox
    ELSE /\ outbox' = Append(outbox,
                IF outcome = "returns"
                THEN TokenTable(jobs[j].message.data, lang, currentTheme)
                ELSE ErrorPreview(EngineError))
         /\ jobs' = [jobs EXCEPT
                        ![j].pc = "done",
                        ![j].lang = lang,
                        ![j].posted = Append(@, outbox'[Len(outbox')])]

(* LanguageSettles without the inner catch: a failed loadLanguage(lang)    *)
(* goes to the catch block of the handler.                                 *)
LanguageSettlesNoFallback(j, ok, outcome) ==
    /\ HostReady
    /\ j \in DOMAIN jobs
    /\ jobs[j].pc = "loadLanguage"
    /\ IF ok
       THEN /\ highlighter' = [langs |-> highlighter.langs \cup {jobs[j].lang}]
            /\ Tokenize(j, jobs[j].lang, outcome)
       ELSE /\ PostFrom(j, ErrorPreview(EngineError))
            /\ UNCHANGED highlighter
    /\ UNCHANGED <<hostFrame, currentTheme, surfaceVars, shiki, currentPanel, panels,
                   storedTheme, notifications, documents, activation>>

(* case 'getPreview', from the await of loadLanguage(lang): on success     *)
(* the rest of the try block, otherwise the await of loadLanguage('text'). *)
LanguageSettles(j, ok, outcome) ==
    /\ HostReady
    /\ j \in DOMAIN jobs
    /\ jobs[j].pc = "loadLanguage"
    /\ IF ok
       THEN /\ highlighter' = [langs |-> highlighter.langs \cup {jobs[j].lang}]
            /\ Tokenize(j, jobs[j].lang, outcome)
       ELSE /\ jobs' = [jobs EXCEPT ![j].pc = "loadText", ![j].lang = "text"]
            /\ UNCHANGED <<highlighter, outbox>>
    /\ UNCHANGED <<hostFrame, currentTheme, surfaceVars, shiki, currentPanel, panels,
                   storedTheme, notifications, documents, activation>>

(* case 'getPreview', from the await of loadLanguage('text'). *)
TextSettles(j, ok, outcome) ==
    /\ HostReady
    /\ j \in DOMAIN jobs
    /\ jobs[j].pc = "loadText"
    /\ IF ok
       THEN /\ highlighter' = [langs |-> highlighter.langs \cup {"text"}]
            /\ Tokenize(j, "text", outcome)
       ELSE /\ PostFrom(j, ErrorPreview(EngineError))
            /\ UNCHANGED highlighter
    /\ UNCHANGED <<hostFrame, currentTheme, surfaceVars, shiki, currentPanel, panels,
                   storedTheme, notifications, documents, activation>>

(* The command vscode-telescope.toggleTheme and onDidAccept of its quick   *)
(* pick with the item chosen, up to the await of loadTheme.                *)
SelectTheme(chosen) ==
    /\ HostReady
    /\ Len(jobs) < MaxJobs
    /\ LET message == [command |-> "toggleTheme", theme |-> chosen]
       IN  IF ~shiki \/ highlighter = null
           THEN /\ Start(Job("toggleTheme", message, "done"))
                /\ Notice("error", <<"Shiki highlighter is not ready.">>)
           ELSE /\ Start(Job("toggleTheme", message,
                             IF chosen # currentTheme THEN "loadTheme" ELSE "done"))
                /\ UNCHANGED notifications
    /\ UNCHANGED <<hostFrame, handlerVars, outbox, surfaceVars, shiki, currentPanel, panels,
                   storedTheme, documents, activation>>

(* ThemeSettles with the assignment before the await: the theme is set    *)
(* whether or not loadTheme succeeds.                                      *)
ThemeSettlesAssignsFirst(j, ok) ==
    /\ HostReady
    /\ j \in DOMAIN jobs
    /\ jobs[j].pc = "loadTheme"
    /\ currentTheme' = jobs[j].message.theme
    /\ IF ok
       THEN /\ jobs' = [jobs EXCEPT ![j].pc = "update"]
            /\ UNCHANGED notifications
       ELSE /\ Finish(j)
            /\ Notice("error", <<"Failed to load Shiki theme: ", jobs[j].message.theme>>)
    /\ UNCHANGED <<hostFrame, fileContent, highlighter, outbox, surfaceVars, shiki,
                   currentPanel, panels, storedTheme, documents, activation>>

(* onDidAccept from the await of loadTheme to the await of                 *)
(* globalState.update, or its catch block.                                 *)
ThemeSettles(j, ok) ==
    /\ HostReady
    /\ j \in DOMAIN jobs
    /\ jobs[j].pc = "loadTheme"
    /\ IF ok
       THEN /\ currentTheme' = jobs[j].message.theme
            /\ jobs' = [jobs EXCEPT ![j].pc = "update"]
            /\ UNCHANGED notifications
       ELSE /\ Finish(j)
            /\ Notice("error", <<"Failed to load Shiki theme: ", jobs[j].message.theme>>)
            /\ UNCHANGED currentTheme
    /\ UNCHANGED <<hostFrame, fileContent, highlighter, outbox, surfaceVars, shiki,
                   currentPanel, panels, storedTheme, documents, activation>>

(* onDidAccept from the await of globalState.update: the theme is stored,  *)
(* the panel is told and the user informed, or the catch block runs.       *)
UpdateSettles(j, ok) ==
    /\ HostReady
    /\ j \in DOMAIN jobs
    /\ jobs[j].pc = "update"
    /\ IF ok
       THEN /\ storedTheme' = jobs[j].message.theme
            /\ IF currentPanel
               THEN PostFrom(j, [command |-> "themeChanged"])
               ELSE Finish(j) /\ UNCHANGED outbox
            /\ Notice("info", <<"Telescope theme set to: ", jobs[j].message.theme>>)
       ELSE /\ Finish(j)
            /\ Notice("error", <<"Failed to load Shiki theme: ", jobs[j].message.theme>>)
            /\ UNCHANGED <<storedTheme, outbox>>
    /\ UNCHANGED <<hostFrame, handlerVars, surfaceVars, shiki, currentPanel, panels,
                   documents, activation>>

(* The listener of panel.webview.onDidReceiveMessage is called with a      *)
(* message, in a run of fewer than limit calls.                            *)
HandleWithin(limit, message) ==
    /\ HostReady
    /\ currentPanel
    /\ Len(jobs) < limit
    /\ CASE message.command = "search"     -> HandleSearch(message)
         [] message.command = "openFile"   -> HandleOpenFile(message)
         [] message.command = "getPreview" -> HandleGetPreview(message)

Handle(message) == HandleWithin(MaxJobs, message)

(* The themes the quick pick offers: the two the highlighter is created   *)
(* with, and one of the other bundled themes.                              *)
HostThemes == Themes \cup {"nord"}

(* The messages the webview posts in the model of the host alone. *)
HostTerms == {<<"f", "f">>, <<"f", "f", "f">>, <<"f", "f", "g">>}

HostPaths == {PathJoin(rootPath, <<"a", ".", "t", "s">>), Str0}

HostLines == {<<"2">>, <<"0">>}

HostMessages ==
    {SearchMessage(term) : term \in HostTerms}
        \cup {[command |-> "openFile", filePath |-> f, line |-> l] :
                 f \in HostPaths, l \in HostLines}
        \cup {[command |-> "getPreview",
               data |-> [filePath |-> f, line |-> l, searchTerm |-> <<"f", "f", "f">>]] :
                 f \in HostPaths, l \in HostLines}

Receive(message) ==
    /\ Handle(message)
    /\ UNCHANGED surfaceVars

HostFiles == {[content |-> FileOf(ShortFileLines)],
              [error |-> "ENOENT: no such file or directory"]}

InitHost ==
    /\ workspaceFolders \in BOOLEAN
    /\ pc = "start"
    /\ searchTerm = Str0
    /\ rgProcess = "none"
    /\ events = << >>
    /\ stdoutData = Str0
    /\ stderrData = Str0
    /\ nChunks = 0
    /\ nBursts = 0
    /\ promise = [state |-> "none"]
    /\ outbox = << >>
    /\ spawns = 0
    /\ previewLine = Str0
    /\ totalLines = 0
    /\ window = null
    /\ fileContent \in HostFiles
    /\ highlighter = null
    /\ currentTheme = "vitesse-dark"
    /\ shiki = FALSE
    /\ currentPanel = FALSE
    /\ panels = 0
    /\ storedTheme \in {"undefined", "vitesse-light"}
    /\ notifications = << >>
    /\ documents = << >>
    /\ jobs = << >>
    /\ activation = "inactive"
    /\ SurfaceIdle

NextHost ==
    \/ \E importOk \in BOOLEAN, createOk \in BOOLEAN : Activate(importOk, createOk)
    \/ \E createOk \in BOOLEAN : Telescope(createOk)
    \/ \E message \in HostMessages : Receive(message)
    \/ \E chosen \in HostThemes : SelectTheme(chosen)
    \/ \E j \in 1..MaxJobs :
          \/ \E outcome \in SearchOutcomes : SearchSettles(j, outcome)
          \/ \E ok \in BOOLEAN : ShowSettles(j, ok)
          \/ ReadSettles(j)
          \/ \E ok \in BOOLEAN, outcome \in TokenizeOutcomes : LanguageSettles(j, ok, outcome)
          \/ \E ok \in BOOLEAN, outcome \in TokenizeOutcomes : TextSettles(j, ok, outcome)
          \/ \E ok \in BOOLEAN : ThemeSettles(j, ok)
          \/ \E ok \in BOOLEAN : UpdateSettles(j, ok)

SpecHost == InitHost /\ [][NextHost]_vars

(***************************************************************************)
(* The extension host and the webview of its panel together: the webview   *)
(* posts to the host through sent, the host to the webview through outbox, *)
(* each in the order posted.                                               *)
(***************************************************************************)
SystemTerms == {Str0, <<"f", "f", "f">>, <<"f", "f", "g">>}

SystemLayout == [lineHeight |-> 20, fontSize |-> 14, panelHeight |-> 300]

(* The listener of the host is called with the oldest message posted. *)
HostTakes(limit) ==
    /\ sent # << >>
    /\ HandleWithin(limit, Head(sent))
    /\ sent' = Tail(sent)
    /\ UNCHANGED <<searchBox, filesDiv, previewDiv, selectedIndex,
                   previewDebounceTimer, searchDebounceTimer, timers>>

HostReceives == HostTakes(MaxJobs)

(* The message listener of the webview is called with the oldest message   *)
(* the host posted.                                                        *)
WebviewReceives ==
    /\ currentPanel
    /\ outbox # << >>
    /\ outbox' = Tail(outbox)
    /\ LET message == Head(outbox)
       IN  CASE message.command = "results" -> RecvResults(message.data)
             [] message.command = "error" -> RecvError(message.data)
             [] message.command = "previewContent" ->
                    RecvPreviewContent(message, SystemLayout)
             [] message.command = "themeChanged" -> RecvThemeChanged

(* What the user does in the webview, typing one of terms, and its timers. *)
WebviewDoes(terms) ==
    /\ currentPanel
    /\ \/ \E value \in terms : Input(value)
       \/ ArrowUp
       \/ ArrowDown
       \/ Enter
       \/ \E target \in 0..MaxResults : Click(target)
       \/ \E t \in timers : TimerFires(t)

WebviewActs == WebviewDoes(SystemTerms)

InitSystem ==
    /\ InitHost
    /\ workspaceFolders = TRUE
    /\ storedTheme = "undefined"
    /\ "content" \in DOMAIN fileContent

NextSystem ==
    \/ \E importOk \in BOOLEAN, createOk \in BOOLEAN : Activate(importOk, createOk)
    \/ \E createOk \in BOOLEAN : Telescope(createOk)
    \/ WebviewActs
    \/ HostReceives
    \/ WebviewReceives
    \/ \E chosen \in Themes : SelectTheme(chosen)
    \/ \E j \in 1..MaxJobs :
          \/ \E outcome \in SearchOutcomes : SearchSettles(j, outcome)
          \/ \E ok \in BOOLEAN : ShowSettles(j, ok)
          \/ ReadSettles(j)
          \/ \E ok \in BOOLEAN, outcome \in TokenizeOutcomes : LanguageSettles(j, ok, outcome)
          \/ \E ok \in BOOLEAN, outcome \in TokenizeOutcomes : TextSettles(j, ok, outcome)
          \/ \E ok \in BOOLEAN : ThemeSettles(j, ok)
          \/ \E ok \in BOOLEAN : UpdateSettles(j, ok)

SpecSystem == InitSystem /\ [][NextSystem]_vars

(***************************************************************************)
(* Reading the tool's output directly, for the statements below: the text  *)
(* lines are the maximal runs of characters without a line terminator, and *)
(* the fields of a line are delimited by its colons.                       *)
(***************************************************************************)
Positions(s, c) == {i \in 1..Len(s) : s[i] = c}

Ascending(S) ==
    [k \in 1..Cardinality(S) |->
        CHOOSE x \in S : Cardinality({y \in S : y < x}) = k - 1]

TextLines(out) ==
    LET nl        == Positions(out, "\n")
        starts    == Ascending({1} \cup {i + 1 : i \in nl})
        endOf(st) == IF {i \in nl : i >= st} = {} THEN Len(out)
                     ELSE SetMin({i \in nl : i >= st}) - 1
    IN  [k \in 1..Len(starts) |-> SubSeq(out, starts[k], endOf(starts[k]))]

HasFourFields(l) == Len(l) > 0 /\ Cardinality(Positions(l, ":")) >= 3

MatchLines(out) == SelectSeq(TextLines(out), HasFourFields)

Colons(l) == Ascending(Positions(l, ":"))

Field1(l) == SubSeq(l, 1, Colons(l)[1] - 1)

Field2(l) == SubSeq(l, Colons(l)[1] + 1, Colons(l)[2] - 1)

TextOf(l) == SubSeq(l, Colons(l)[3] + 1, Len(l))

AllDigits(f) == Len(f) > 0 /\ \A i \in 1..Len(f) : IsDigit(f[i])

(* f is the decimal notation of n, for the one- and two-digit numbers. *)
IsDecimalOf(f, n) ==
    \/ n \in 0..9 /\ f = <<Digits[n + 1]>>
    \/ n \in 10..99 /\ f = <<Digits[(n \div 10) + 1], Digits[(n % 10) + 1]>>

AfterLastSlash(f) ==
    LET sl == Positions(f, "/")
    IN  IF sl = {} THEN f
        ELSE SubSeq(f, (CHOOSE x \in sl : \A y \in sl : y <= x) + 1, Len(f))

(* d is t without the white space at its two ends. *)
IsStripped(t, d) ==
    /\ Len(d) > 0 => ~IsSpace(d[1]) /\ ~IsSpace(d[Len(d)])
    /\ \E a \in 0..Len(t) :
          /\ a + Len(d) <= Len(t)
          /\ SubSeq(t, a + 1, a + Len(d)) = d
          /\ \A i \in (1..a) \cup ((a + Len(d) + 1)..Len(t)) : IsSpace(t[i])

(* The search of a term of three or more characters, in an open folder,   *)
(* has been answered after its process closed with a success code.        *)
AnsweredSuccess ==
    /\ pc = "done"
    /\ Len(events) > 0
    /\ events[1][1] = "close"
    /\ events[1][2] \in {0, 1}

ResultsCap == 500

PerFileCap == 100

(***************************************************************************)
(* The claims                                                              *)
(***************************************************************************)

C2_OneReplyOfFirstEvent ==
    (pc # "start" /\ Len(searchTerm) >= 3) =>
        /\ Len(outbox) <= 1
        /\ pc = "awaiting" => outbox = << >>
        /\ pc = "done" =>
              Len(outbox) = 1 /\ outbox[1].command \in {"results", "error"}
        /\ (workspaceFolders /\ events = << >>) => pc = "awaiting"
        /\ (pc = "awaiting" /\ events # << >>) => ENABLED SearchContinue
        /\ (pc = "done" /\ events # << >>) =>
              IF events[1][1] = "error"
              THEN /\ outbox[1].command = "error"
                   /\ outbox[1].data.text =
                          "Failed to start Ripgrep process: ${err.message}"
              ELSE IF events[1][2] \in {0, 1}
              THEN outbox[1].command = "results"
              ELSE /\ outbox[1].command = "error"
                   /\ outbox[1].data.text =
                          "Ripgrep Error: ${stderrData}\nCommand: ${command} ${args.join(' ')}"

C2_Witness ==
    /\ pc = "done"
    /\ rgProcess = "failed"
    /\ Len(events) = 2
    /\ events[1][1] = "error"
    /\ events[2][1] = "close"
    /\ Len(outbox) = 1
    /\ outbox[1].command = "error"

(* C3: the matches returned by one search are never more than 500. *)
C3_AtMost500Results ==
    \A i \in 1..Len(outbox) :
        outbox[i].command = "results" => Len(outbox[i].data) <= ResultsCap

(* C4: in the matches returned by one search no file contributes more     *)
(* than 100 entries.                                                       *)
C4_AtMost100PerFile ==
    \A i \in 1..Len(outbox) :
        outbox[i].command = "results" =>
            \A j \in 1..Len(outbox[i].data) :
                Cardinality({k \in 1..Len(outbox[i].data) :
                    outbox[i].data[k].filePath = outbox[i].data[j].filePath})
                  <= PerFileCap

(* C5: when the process exits with code 1 the search succeeds: the        *)
(* response is 'results', never 'error', and with empty stdout the list    *)
(* is empty.                                                               *)
C5_ExitOneSucceeds ==
    (pc = "done" /\ Len(events) > 0 /\ events[1][1] = "close" /\ events[1][2] = 1) =>
        /\ Len(outbox) = 1
        /\ outbox[1].command = "results"
        /\ stdoutData = Str0 => outbox[1].data = << >>

C5_Witness ==
    /\ pc = "done"
    /\ Len(events) = 1
    /\ events[1][1] = "close"
    /\ events[1][2] = 1
    /\ stdoutData = Str0
    /\ outbox = <<[command |-> "results", data |-> << >>]>>

(* C6: when the process exits with a code other than 0 and 1 the search   *)
(* fails: the only response is 'error', its text carries the captured      *)
(* stderr and the command line, and nothing of stdout is returned.         *)
C6_OtherExitCodeFails ==
    (pc = "done" /\ Len(events) > 0 /\ events[1][1] = "close"
                 /\ events[1][2] \notin {0, 1}) =>
        /\ promise.state = "rejected"
        /\ Len(outbox) = 1
        /\ outbox[1].command = "error"
        /\ outbox[1].data.text =
               "Ripgrep Error: ${stderrData}\nCommand: ${command} ${args.join(' ')}"
        /\ outbox[1].data.stderr = stderrData
        /\ outbox[1].data.command = "rg"
        /\ outbox[1].data.args = <<"-F", "--vimgrep", "--ignore-case", searchTerm, ".">>

C6_Witness ==
    /\ pc = "done"
    /\ Len(events) = 1
    /\ events[1][1] = "close"
    /\ events[1][2] = 2
    /\ stderrData # Str0
    /\ Len(MatchLines(stdoutData)) = 2
    /\ Len(outbox) = 1
    /\ outbox[1].command = "error"
    /\ outbox[1].data.stderr = stderrData

(* C7: when the process cannot be started the search fails with an error  *)
(* that is not the error of a non-zero exit and that carries the operating *)
(* system's message; it is the one response, an 'error' message, and no    *)
(* second process is spawned.                                              *)
C7_SpawnFailureReported ==
    (pc = "done" /\ rgProcess = "failed") =>
        /\ events[1][1] = "error"
        /\ outbox = <<[command |-> "error",
                       data |-> [text |-> "Failed to start Ripgrep process: ${err.message}",
                                 message |-> events[1][2]]]>>
        /\ outbox[1].data.text #
               "Ripgrep Error: ${stderrData}\nCommand: ${command} ${args.join(' ')}"
        /\ spawns = 1

C7_Witness ==
    /\ pc = "done"
    /\ rgProcess = "failed"
    /\ Len(events) = 2
    /\ Len(outbox) = 1
    /\ outbox[1].command = "error"
    /\ outbox[1].data.message = "spawn rg ENOENT"

MatchOfLine(m, l) ==
    /\ IsDecimalOf(Field2(l), m.line)
    /\ m.filePath = rootPath \o <<"/">> \o Field1(l)
    /\ m.label = AfterLastSlash(Field1(l)) \o <<":">> \o Field2(l)

(* C9 as claimed: for an output line path:line:col:text the match has     *)
(* line = the integer of the 2nd field, filePath = the root joined with    *)
(* the 1st field, label = the basename of the 1st field, ':' and the line, *)
(* and description = the fields from the 4th on rejoined with ':'.         *)
C9_MatchFieldsAsClaimed ==
    (AnsweredSuccess /\ nBursts = 0) =>
        LET ml == MatchLines(stdoutData)
        IN  /\ Len(outbox[1].data) = Len(ml)
            /\ \A i \in 1..Len(ml) :
                  AllDigits(Field2(ml[i])) =>
                      /\ MatchOfLine(outbox[1].data[i], ml[i])
                      /\ outbox[1].data[i].description = TextOf(ml[i])

(* C9 as amended: the description is the fields from the 4th on rejoined  *)
(* with ':' and stripped of the white space at its two ends.               *)
C9_MatchFieldsTrimmed ==
    (AnsweredSuccess /\ nBursts = 0) =>
        LET ml == MatchLines(stdoutData)
        IN  /\ Len(outbox[1].data) = Len(ml)
            /\ \A i \in 1..Len(ml) :
                  AllDigits(Field2(ml[i])) =>
                      /\ MatchOfLine(outbox[1].data[i], ml[i])
                      /\ IsStripped(TextOf(ml[i]), outbox[1].data[i].description)

C9_Witness ==
    /\ AnsweredSuccess
    /\ stdoutData = ChunkDirMatch \o ChunkText
    /\ Len(outbox[1].data) = 1
    /\ outbox[1].data[1].line = 3
    /\ outbox[1].data[1].filePath = <<"/", "w", "/", "d", "/", "a">>
    /\ outbox[1].data[1].label = <<"a", ":", "3">>
    /\ outbox[1].data[1].description = <<"x", ":", "y">>

(* C10: the preview window satisfies 0 <= startLine <= endLine <=          *)
(* totalLines for every file length and every target line, also a target   *)
(* line outside the file.                                                  *)
C10_WindowInsideFile ==
    window # null =>
        /\ 0 <= window.startLine
        /\ window.startLine <= window.endLine
        /\ window.endLine <= totalLines

C10_Witness ==
    /\ window # null
    /\ totalLines = 10
    /\ TargetLineIndex(previewLine) = 299
    /\ window = [startLine |-> 0, endLine |-> 10]

(* C11: the preview window has endLine - startLine = min(totalLines, 100): *)
(* near the start and the end of a long file it is slid, not shrunk, and   *)
(* a file of at most 100 lines is covered whole.                           *)
C11_WindowFullSize ==
    window # null =>
        /\ window.endLine - window.startLine = Min(totalLines, 100)
        /\ totalLines <= 100 => window = [startLine |-> 0, endLine |-> totalLines]

C11_Witness ==
    /\ window # null
    /\ totalLines = 210
    /\ TargetLineIndex(previewLine) = 205
    /\ window = [startLine |-> 110, endLine |-> 210]

(* C12: a target line inside the file, 0 <= target < totalLines, lies in   *)
(* the preview window, startLine <= target < endLine, also when the start  *)
(* was adjusted near the end of the file.                                  *)
C12_WindowContainsTarget ==
    (window # null /\ TargetLineIndex(previewLine) \in 0..(totalLines - 1)) =>
        /\ window.startLine <= TargetLineIndex(previewLine)
        /\ TargetLineIndex(previewLine) < window.endLine

C12_Witness ==
    /\ window # null
    /\ totalLines = 150
    /\ TargetLineIndex(previewLine) = 140
    /\ window = [startLine |-> 50, endLine |-> 150]

(* The text of a token line: the contents of its tokens, concatenated. *)
RECURSIVE ContentOf(_)
ContentOf(tokenLine) ==
    IF tokenLine = << >> THEN Str0
    ELSE Head(tokenLine).content \o ContentOf(Tail(tokenLine))

IsErrorTable(tokenLines) ==
    /\ Len(tokenLines) = 1
    /\ Len(tokenLines[1]) = 1
    /\ tokenLines[1][1].color = <<"#FF0000">>

(* The 'previewContent' messages posted that carry a token table. *)
SuccessfulPreviews ==
    {k \in 1..Len(outbox) :
        /\ outbox[k].command = "previewContent"
        /\ ~IsErrorTable(outbox[k].data.tokenLines)}

(* C13: the token table of a successful 'previewContent' has one entry per *)
(* line of the file, none of them undefined: the empty token sequence for  *)
(* a line outside [startLine, endLine), and inside it the tokens of that   *)
(* source line, whose contents concatenate to the line.                    *)
C13_TokenTableCoversFile ==
    \A k \in SuccessfulPreviews :
        LET tokenLines == outbox[k].data.tokenLines
        IN  /\ fileContent = [content |-> Str0] =>
                tokenLines = << << >> >>
            /\ \A n \in FileLengths :
                fileContent = [content |-> FileOf(n)] =>
                    /\ Len(tokenLines) = n
                    /\ \A i \in 0..(n - 1) :
                        /\ tokenLines[i + 1] # undefined
                        /\ IF window.startLine <= i /\ i < window.endLine
                           THEN ContentOf(tokenLines[i + 1]) = SourceLine(i)
                           ELSE tokenLines[i + 1] = << >>

C13_Witness ==
    /\ SuccessfulPreviews # {}
    /\ fileContent = [content |-> FileOf(103)]
    /\ window = [startLine |-> 1, endLine |-> 101]
    /\ Len(outbox[1].data.tokenLines) = 103
    /\ outbox[1].data.tokenLines[1] = << >>
    /\ Len(outbox[1].data.tokenLines[2]) = 3
    /\ outbox[1].data.tokenLines[102] = << >>

(***************************************************************************)
(* Reading the webview's state, for the statements below.                  *)
(***************************************************************************)
ItemCount == Len(FileItems(filesDiv))

NoSelection == 0 - 1

NoResultsShown == filesDiv = <<InfoText(<<"No results found.">>)>>

PendingTimers(kind) == {t \in timers : t.kind = kind}

Clamp(x, low, high) == IF x < low THEN low ELSE IF x > high THEN high ELSE x

(* Item number index carries the class 'selected' and no other item does,  *)
(* and the one pending preview timer is for that item.                     *)
SelectionShownAndScheduled(div, index, pending) ==
    /\ SelectedItems(div) = {FileItems(div)[index + 1]}
    /\ \E t \in pending :
        /\ {u \in pending : u.kind = "preview"} = {t}
        /\ t.payload = div[FileItems(div)[index + 1]].dataset

OpenFileOf(item) ==
    [command |-> "openFile", filePath |-> item.dataset.filePath,
     line |-> item.dataset.line]

(* C14: processing a 'results' message sets the selection, whatever it    *)
(* was, to index 0 when there are results and to 'none' when there are not.*)
C14_ResultsResetSelection ==
    [][\A k \in DOMAIN ResultSets :
          RecvResults(ResultSet(k)) =>
              /\ selectedIndex' = IF ResultSet(k) = << >> THEN NoSelection ELSE 0
              /\ SelectedItems(filesDiv') = IF ResultSet(k) = << >> THEN {} ELSE {1}]_vars

C14_Witness ==
    /\ ItemCount = 2
    /\ selectedIndex = 0
    /\ SelectedItems(filesDiv) = {1}
    /\ previewDiv = << >>
    /\ searchBox # Str0

(* C15: whenever the list shows items, 0 <= selectedIndex < their number. *)
C15_SelectionInsideList ==
    ItemCount > 0 => (0 <= selectedIndex /\ selectedIndex < ItemCount)

C15_Witness ==
    /\ ItemCount = 2
    /\ selectedIndex = 1
    /\ SelectedItems(filesDiv) = {2}

C17_ArrowKeysMoveSelection ==
    [][/\ ArrowUp =>
            IF ItemCount = 0 THEN UNCHANGED vars
            ELSE /\ selectedIndex' = Clamp(selectedIndex - 1, 0, ItemCount - 1)
                 /\ SelectionShownAndScheduled(filesDiv', selectedIndex', timers')
       /\ ArrowDown =>
            IF ItemCount = 0 THEN UNCHANGED vars
            ELSE /\ selectedIndex' = Clamp(selectedIndex + 1, 0, ItemCount - 1)
                 /\ SelectionShownAndScheduled(filesDiv', selectedIndex', timers')]_vars

C17_Witness ==
    /\ ItemCount = 2
    /\ selectedIndex = 1
    /\ SelectionShownAndScheduled(filesDiv, 1, timers)
    /\ searchBox = <<"f", "f">>

(* C18: Enter with items in the list, and a click on the selected item,   *)
(* post one 'openFile' with the path and line of the selected item and     *)
(* change nothing else; Enter with no item changes nothing.                *)
C18_OpenSelectedItem ==
    [][/\ Enter =>
            IF ItemCount = 0 THEN UNCHANGED vars
            ELSE /\ \E k \in SelectedItems(filesDiv) :
                       /\ SelectedItems(filesDiv) = {k}
                       /\ sent' = Append(sent, OpenFileOf(filesDiv[k]))
                 /\ UNCHANGED <<selectedIndex, filesDiv, previewDiv, timers>>
       /\ \A target \in 1..MaxResults :
            (Click(target) /\ target \in SelectedItems(filesDiv)) =>
                /\ sent' = Append(sent, OpenFileOf(filesDiv[target]))
                /\ UNCHANGED <<selectedIndex, filesDiv, previewDiv, timers>>]_vars

C18_Witness ==
    /\ ItemCount = 2
    /\ selectedIndex = 1
    /\ sent = <<OpenFileOf(filesDiv[2])>>

(* C19: a click on an item that is not the selected one selects it,       *)
(* schedules the preview for it and posts nothing.                         *)
C19_ClickSelects ==
    [][\A target \in 1..MaxResults :
          (Click(target) /\ target \notin SelectedItems(filesDiv)) =>
              /\ selectedIndex' = target - 1
              /\ SelectionShownAndScheduled(filesDiv', target - 1, timers')
              /\ sent' = sent]_vars

C19_Witness ==
    /\ ItemCount = 2
    /\ selectedIndex = 1
    /\ SelectionShownAndScheduled(filesDiv, 1, timers)
    /\ previewDiv # << >>
    /\ sent = << >>

(* C20: at most one search timer and at most one preview timer is         *)
(* pending, and it is the one set last: the one the handle variable names, *)
(* for a search the one of the term now in the search box.                 *)
C20_OneTimerOfEachKind ==
    /\ Cardinality(PendingTimers("search")) <= 1
    /\ Cardinality(PendingTimers("preview")) <= 1
    /\ \A t \in PendingTimers("search") :
        t.id = searchDebounceTimer /\ t.payload = searchBox
    /\ \A t \in PendingTimers("preview") : t.id = previewDebounceTimer

C20_Witness ==
    /\ Cardinality(PendingTimers("search")) = 1
    /\ Cardinality(PendingTimers("preview")) = 1
    /\ searchDebounceTimer = 3
    /\ searchBox = <<"f", "f", "f">>

(***************************************************************************)
(* C21: input events less than the debounce delay apart send one 'search'  *)
(* message, after the last of them and with its term.  A 'search' message  *)
(* is posted only by the timer the last input event set, once that timer   *)
(* is SEARCH_DEBOUNCE_DELAY old, it carries the value the search box has,  *)
(* and no search timer is pending after it; an input event posts nothing,  *)
(* and while the search box is empty no search timer is pending; and the   *)
(* timer of an input event does post its message unless a later input      *)
(* event replaces or cancels it.                                           *)
(***************************************************************************)
C21_SearchPosted ==
    /\ Len(sent') = Len(sent) + 1
    /\ sent'[Len(sent')].command = "search"

C21_LastTimer(i, v) ==
    /\ searchDebounceTimer = i
    /\ \E t \in timers : t.id = i /\ t.kind = "search" /\ t.payload = v

C21_Step ==
    /\ C21_SearchPosted =>
           /\ \E t \in timers : /\ t.id = searchDebounceTimer
                                /\ t.kind = "search"
                                /\ Due(t)
                                /\ t.payload = searchBox
           /\ sent'[Len(sent')] = SearchMessage(searchBox)
           /\ PendingTimers("search")' = {}
    /\ (searchBox' # searchBox \/ searchDebounceTimer' # searchDebounceTimer)
           => (sent' = sent)
    /\ (searchBox' = Str0) => (PendingTimers("search")' = {})
    /\ Cardinality(PendingTimers("search")') <= 1

C21_DebouncedSearch ==
    /\ [][C21_Step]_vars
    /\ \A i \in 1..MaxTimers, v \in DebounceTerms :
           C21_LastTimer(i, v) ~>
               \/ SearchMessage(v) \in {sent[k] : k \in DOMAIN sent}
               \/ searchDebounceTimer # i
               \/ searchBox = Str0

(* A later input event has replaced the timer of an earlier one, and the   *)
(* one message posted is that of the later.                                *)
C21_Witness ==
    /\ searchBox = <<"f", "f", "f">>
    /\ searchDebounceTimer > 1
    /\ timers = {}
    /\ sent = <<SearchMessage(<<"f", "f", "f">>)>>

(* The list a 'results' message is rendered to. *)
RenderedList(results) ==
    IF Len(results) = 0 THEN <<InfoText(<<"No results found.">>)>>
    ELSE Highlighted([k \in 1..Len(results) |-> FileItem(results[k], k - 1)], 0)

(* The webview's listener takes the oldest message of the host. *)
WebviewTakes(cmd) ==
    /\ outbox # << >>
    /\ outbox' = Tail(outbox)
    /\ Head(outbox).command = cmd

(***************************************************************************)
(* C22: no call of a handler is cancelled (a call stays among the calls    *)
(* with its message until it ends, and an ended search has posted its one  *)
(* reply), and the webview renders every 'results' and 'previewContent'    *)
(* message it takes, whatever it shows and whichever request the message   *)
(* answers.                                                                *)
(***************************************************************************)
C22_Step ==
    /\ WebviewTakes("results") => (filesDiv' = RenderedList(Head(outbox).data))
    /\ WebviewTakes("previewContent")
           => (previewDiv' = Paint(Head(outbox).data, SystemLayout))
    /\ Len(jobs') >= Len(jobs)
    /\ \A j \in DOMAIN jobs :
           /\ jobs'[j].message = jobs[j].message
           /\ jobs[j].pc = "done" => jobs'[j] = jobs[j]
           /\ (jobs[j].kind = "search" /\ jobs[j].pc # "done" /\ jobs'[j].pc = "done")
                  => (Len(jobs'[j].posted) = 1 /\ outbox' = Append(outbox, jobs'[j].posted[1]))

C22_LastResponseDisplayed == [][C22_Step]_vars

(* Two searches were sent, for fff and then for ffg; both replies have     *)
(* been rendered, and the list is that of the older request.               *)
C22_Witness ==
    /\ Len(jobs) = 2
    /\ jobs[1].kind = "search" /\ jobs[1].message.text = <<"f", "f", "f">>
    /\ jobs[2].kind = "search" /\ jobs[2].message.text = <<"f", "f", "g">>
    /\ jobs[1].pc = "done" /\ jobs[2].pc = "done"
    /\ jobs[1].posted[1].command = "results"
    /\ jobs[2].posted[1].command = "results"
    /\ outbox = << >>
    /\ searchBox = <<"f", "f", "g">>
    /\ filesDiv = RenderedList(jobs[1].posted[1].data)
    /\ filesDiv # RenderedList(jobs[2].posted[1].data)

(* Call j stands at an await, or inside a call, that has not completed. *)
InFlight(j) == j \in DOMAIN jobs /\ jobs[j].pc # "done"

(***************************************************************************)
(* C23: a request whose process, file read or tokenization does not        *)
(* complete delays only its own response.  Whatever calls are in flight    *)
(* once the extension is active, the host can run the listener for a later *)
(* message and the continuation of every other call.                       *)
(***************************************************************************)
C23_HangDelaysOnlyItself ==
    \A j \in DOMAIN jobs : (activation = "active" /\ InFlight(j)) => HostReady

(* A 'getPreview' message that names a file path and a line. *)
NamesFileAndLine(message) ==
    /\ message.command = "getPreview"
    /\ message.data.filePath # Str0
    /\ message.data.line # Str0

(* The awaits and calls of the try block of case 'getPreview'. *)
InTryBlock(job) ==
    job.kind = "getPreview"
        /\ job.pc \in {"readFile", "loadLanguage", "loadText", "codeToTokens"}

(* A 'previewContent' message whose table is one line with the one red     *)
(* token of the error text, for line 0 and an empty search term.           *)
IsErrorPreview(message) ==
    /\ message.command = "previewContent"
    /\ Len(message.data.tokenLines) = 1
    /\ Len(message.data.tokenLines[1]) = 1
    /\ message.data.tokenLines[1][1].color = <<"#FF0000">>
    /\ message.data.tokenLines[1][1].content[1] = "File Cant Read:\n"
    /\ message.data.line = 0
    /\ message.data.searchTerm = Str0

(* The call that starts in this step, if one does. *)
Started == Len(jobs') = Len(jobs) + 1

(***************************************************************************)
(* C24: a 'getPreview' that names a file path and a line while the         *)
(* highlighter is present gets exactly one 'previewContent'.  Such a call  *)
(* enters the try block; in the try block it has posted nothing; it leaves *)
(* the try block only by posting one message, which is the token table of  *)
(* the file for the request's line and term, or the one-line error table   *)
(* with line 0 and an empty term, the latter whenever the read failed; and *)
(* an ended call posts nothing more.                                       *)
(***************************************************************************)
C24_Step ==
    /\ (Started /\ NamesFileAndLine(jobs'[Len(jobs')].message) /\ highlighter # null)
           => (jobs'[Len(jobs')].pc = "readFile")
    /\ \A j \in DOMAIN jobs :
           /\ InTryBlock(jobs[j]) => (jobs[j].posted = << >>)
           /\ (InTryBlock(jobs[j]) /\ ~InTryBlock(jobs'[j])) =>
                  /\ jobs'[j].pc = "done"
                  /\ Len(jobs'[j].posted) = 1
                  /\ outbox' = Append(outbox, jobs'[j].posted[1])
                  /\ \/ IsErrorPreview(jobs'[j].posted[1])
                     \/ /\ "content" \in DOMAIN fileContent
                        /\ jobs'[j].posted[1] =
                               TokenTable(jobs[j].message.data, jobs'[j].lang,
                                          currentTheme)
                  /\ ("error" \in DOMAIN fileContent) => IsErrorPreview(jobs'[j].posted[1])
           /\ (jobs[j].pc = "done") => (jobs'[j] = jobs[j])

C24_OnePreviewContent == [][C24_Step]_vars

(* One request was answered with the token table and another, whose        *)
(* tokenization threw, with the error table.                               *)
C24_Witness ==
    /\ Len(jobs) = 2
    /\ \A j \in 1..2 : NamesFileAndLine(jobs[j].message) /\ jobs[j].pc = "done"
    /\ Len(jobs[1].posted) = 1 /\ Len(jobs[2].posted) = 1
    /\ ~IsErrorPreview(jobs[1].posted[1])
    /\ IsErrorPreview(jobs[2].posted[1])
    /\ outbox = <<jobs[1].posted[1], jobs[2].posted[1]>>

(***************************************************************************)
(* C25: while the highlighter is absent, the call of the listener for a    *)
(* 'getPreview' message returns at once: it posts nothing, changes nothing *)
(* of the extension's state, and nothing is posted for it later.           *)
(***************************************************************************)
C25_Step ==
    /\ (Started /\ jobs'[Len(jobs')].kind = "getPreview" /\ highlighter = null) =>
           /\ jobs'[Len(jobs')].pc = "done"
           /\ jobs'[Len(jobs')].posted = << >>
           /\ UNCHANGED <<outbox, hostFrame, handlerVars, shiki, currentPanel, panels,
                          storedTheme, notifications, documents, activation>>
    /\ \A j \in DOMAIN jobs : (jobs[j].pc = "done") => (jobs'[j] = jobs[j])

C25_NoEngineNoPreview == [][C25_Step]_vars

(* The import of shiki failed, the panel is open, and a request naming a   *)
(* file and a line has been handled without a response.                    *)
C25_Witness ==
    /\ highlighter = null
    /\ currentPanel
    /\ \E j \in DOMAIN jobs :
           /\ NamesFileAndLine(jobs[j].message)
           /\ jobs[j].pc = "done"
           /\ jobs[j].posted = << >>
    /\ outbox = << >>

(***************************************************************************)
(* C26: when the highlighter is absent because its creation failed, each   *)
(* preview request attempts the creation again.  The call of the listener  *)
(* for a 'getPreview' message that names a file and a line while the       *)
(* highlighter is absent creates it, or goes on to an await.               *)
(***************************************************************************)
C26_Step ==
    (/\ Started
     /\ NamesFileAndLine(jobs'[Len(jobs')].message)
     /\ highlighter = null)
        => (highlighter' # null \/ jobs'[Len(jobs')].pc # "done")

C26_PreviewRetriesCreation == [][C26_Step]_vars

(***************************************************************************)
(* C27: when loadLanguage fails for the language of the file, the call     *)
(* posts nothing and goes on to load 'text'; and once 'text' is loaded and *)
(* the tokens are returned, the call posts the token table of the file     *)
(* tokenized as 'text', which is no error table.                           *)
(***************************************************************************)
C27_Step ==
    \A j \in DOMAIN jobs :
        /\ (\E outcome \in TokenizeOutcomes : LanguageSettles(j, FALSE, outcome)) =>
               /\ jobs'[j].pc = "loadText"
               /\ jobs'[j].lang = "text"
               /\ jobs'[j].posted = << >>
               /\ outbox' = outbox
        /\ TextSettles(j, TRUE, "returns") =>
               /\ jobs'[j].pc = "done"
               /\ jobs'[j].posted =
                      <<TokenTable(jobs[j].message.data, "text", currentTheme)>>
               /\ outbox' = Append(outbox, jobs'[j].posted[1])
               /\ ~IsErrorPreview(jobs'[j].posted[1])

C27_TextFallback == [][C27_Step]_vars

(* A file whose language is typescript was tokenized as 'text' and its     *)
(* table posted.                                                           *)
C27_Witness ==
    \E j \in DOMAIN jobs :
        /\ NamesFileAndLine(jobs[j].message)
        /\ getLangId(jobs[j].message.data.filePath) = "typescript"
        /\ jobs[j].pc = "done"
        /\ jobs[j].lang = "text"
        /\ Len(jobs[j].posted) = 1
        /\ ~IsErrorPreview(jobs[j].posted[1])
        /\ jobs[j].posted[1].data.tokenLines[1][1].color[2] = "text"

(* The themes of the colors of a token table. *)
ThemesOf(message) ==
    LET lines == message.data.tokenLines
    IN  UNION {{lines[i][k].color[1] : k \in DOMAIN lines[i]} : i \in DOMAIN lines}

(***************************************************************************)
(* C28: the active theme changes only when loadTheme has succeeded for the *)
(* chosen theme, and every token table posted afterwards is colored under  *)
(* the theme active when it is made; when loadTheme fails, the active and  *)
(* the stored theme stay as they are, the user is shown an error message,  *)
(* and nothing is posted to the webview.                                   *)
(***************************************************************************)
C28_Step ==
    /\ (activation = "active" /\ currentTheme' # currentTheme) =>
           \E j \in DOMAIN jobs :
               /\ ThemeSettles(j, TRUE)
               /\ currentTheme' = jobs[j].message.theme
    /\ (storedTheme' # storedTheme) =>
           \E j \in DOMAIN jobs :
               /\ UpdateSettles(j, TRUE)
               /\ storedTheme' = jobs[j].message.theme
    /\ \A j \in DOMAIN jobs :
           /\ ThemeSettles(j, FALSE) =>
                  /\ UNCHANGED <<currentTheme, storedTheme, outbox>>
                  /\ jobs'[j].pc = "done"
                  /\ jobs'[j].posted = << >>
                  /\ notifications' = Append(notifications,
                         [level |-> "error",
                          text  |-> <<"Failed to load Shiki theme: ",
                                      jobs[j].message.theme>>])
           /\ (/\ InTryBlock(jobs[j])
               /\ jobs'[j].pc = "done"
               /\ ~IsErrorPreview(jobs'[j].posted[1]))
                  => (ThemesOf(jobs'[j].posted[1]) = {currentTheme})

C28_ThemeChangesOnSuccess == [][C28_Step]_vars

(* The theme nord was chosen, loaded and stored, and a preview requested   *)
(* afterwards was tokenized under it.                                      *)
C28_Witness ==
    /\ Len(jobs) = 2
    /\ jobs[1].kind = "toggleTheme" /\ jobs[1].message.theme = "nord"
    /\ jobs[1].pc = "done"
    /\ currentTheme = "nord"
    /\ storedTheme = "nord"
    /\ jobs[2].kind = "getPreview" /\ jobs[2].pc = "done"
    /\ Len(jobs[2].posted) = 1
    /\ ~IsErrorPreview(jobs[2].posted[1])
    /\ ThemesOf(jobs[2].posted[1]) = {"nord"}

ThemeChanged == [command |-> "themeChanged"]

(***************************************************************************)
(* C29: a theme change that succeeded while the panel is open posts one    *)
(* 'themeChanged', and nothing else posts one; the webview that takes it   *)
(* posts one 'getPreview', for the file and line of the selected item and  *)
(* the term in the search box, when an item is selected, and nothing when  *)
(* none is; it sets no timer and leaves list, preview and selection.       *)
(***************************************************************************)
C29_Step ==
    /\ \A j \in DOMAIN jobs :
           (UpdateSettles(j, TRUE) /\ currentPanel)
               => (outbox' = Append(outbox, ThemeChanged))
    /\ (Len(outbox') = Len(outbox) + 1 /\ outbox'[Len(outbox')] = ThemeChanged)
           => \E j \in DOMAIN jobs : UpdateSettles(j, TRUE)
    /\ WebviewTakes("themeChanged") =>
           /\ UNCHANGED <<timers, filesDiv, previewDiv, selectedIndex, searchBox>>
           /\ IF SelectedItems(filesDiv) = {}
              THEN sent' = sent
              ELSE /\ HasItem(filesDiv, selectedIndex)
                   /\ sent' = Append(sent,
                          [command |-> "getPreview",
                           data |-> [filePath |-> ItemAt(filesDiv, selectedIndex).dataset.filePath,
                                     line |-> ItemAt(filesDiv, selectedIndex).dataset.line,
                                     searchTerm |-> searchBox]])

C29_ThemeChangeRefreshesSelection == [][C29_Step]_vars

(* The theme was changed while the second of two results was selected;    *)
(* the webview has taken 'themeChanged' and posted the request for that    *)
(* item and none for the first, while the timer of the selection is still  *)
(* pending.                                                                *)
C29_Witness ==
    /\ Len(jobs) = 2
    /\ jobs[1].kind = "search" /\ jobs[1].pc = "done"
    /\ jobs[2].kind = "toggleTheme" /\ jobs[2].pc = "done"
    /\ jobs[2].posted = <<ThemeChanged>>
    /\ currentTheme = jobs[2].message.theme
    /\ outbox = << >>
    /\ SelectedItems(filesDiv) = {2}
    /\ PendingTimers("preview") # {}
    /\ Len(sent) = 1
    /\ sent[1].command = "getPreview"
    /\ sent[1].data.filePath = filesDiv[2].dataset.filePath
    /\ sent[1].data.line = filesDiv[2].dataset.line
    /\ sent[1].data.filePath # filesDiv[1].dataset.filePath

(* What handling 'openFile' leaves as it is: the messages posted, theme    *)
(* and highlighter, and what the webview shows.                            *)
openFileFrame ==
    <<outbox, currentTheme, storedTheme, highlighter, shiki, filesDiv, previewDiv,
      selectedIndex, searchBox, timers>>

(***************************************************************************)
(* C30: the call of the listener for 'openFile' and its continuation post  *)
(* nothing and change neither theme, highlighter nor what the webview      *)
(* shows; when showTextDocument succeeds the document of the message's     *)
(* path is shown, not as a preview, with the selection at line - 1,        *)
(* character 0; when it fails the user is shown the error message and no   *)
(* document is.                                                            *)
(***************************************************************************)
C30_Step ==
    /\ (Started /\ jobs'[Len(jobs')].kind = "openFile") =>
           /\ UNCHANGED <<openFileFrame, documents, notifications>>
           /\ jobs'[Len(jobs')].posted = << >>
    /\ \A j \in DOMAIN jobs :
           /\ ShowSettles(j, TRUE) =>
                  /\ UNCHANGED <<openFileFrame, notifications, sent>>
                  /\ jobs'[j].posted = << >>
                  /\ Len(documents') = Len(documents) + 1
                  /\ documents'[Len(documents')].filePath = jobs[j].message.filePath
                  /\ documents'[Len(documents')].line + 1 = ParseInt(jobs[j].message.line)
                  /\ documents'[Len(documents')].character = 0
                  /\ ~documents'[Len(documents')].preview
           /\ ShowSettles(j, FALSE) =>
                  /\ UNCHANGED <<openFileFrame, documents, sent>>
                  /\ jobs'[j].posted = << >>
                  /\ notifications' = Append(notifications,
                         [level |-> "error",
                          text  |-> <<"File Can't Open: ", jobs[j].message.filePath>>])

C30_OpenFileOnlyOpens == [][C30_Step]_vars

(* The second result, b.ts line 3, was opened with Enter: the document is  *)
(* shown at line 2, and the list still shows both results with the second  *)
(* selected.                                                               *)
C30_Witness ==
    /\ \E j \in DOMAIN jobs :
           /\ jobs[j].kind = "openFile"
           /\ jobs[j].pc = "done"
           /\ jobs[j].message.line = <<"3">>
    /\ documents = <<[filePath  |-> PathJoin(rootPath, <<"b", ".", "t", "s">>),
                      line      |-> 2,
                      character |-> 0,
                      preview   |-> FALSE]>>
    /\ notifications = << >>
    /\ ItemCount = 2
    /\ SelectedItems(filesDiv) = {2}
    /\ outbox = << >>

(***************************************************************************)
(* The language of a preview: one 'getPreview' call at a time, for paths   *)
(* with every extension of the switch, their upper-case and capitalized    *)
(* variants, unknown extensions and no extension.                          *)
(***************************************************************************)
ToUpper(c) ==
    IF \E k \in 1..26 : c = LowerLetters[k]
    THEN UpperLetters[CHOOSE k \in 1..26 : c = LowerLetters[k]]
    ELSE c

UpperOf(s) == [i \in 1..Len(s) |-> ToUpper(s[i])]

Capitalized(s) == [i \in 1..Len(s) |-> IF i = 1 THEN ToUpper(s[i]) ELSE s[i]]

ListedExtensions == {c[1] : c \in LangCases}

LangExtensions ==
    ListedExtensions
        \cup {UpperOf(e) : e \in ListedExtensions}
        \cup {Capitalized(e) : e \in ListedExtensions}
        \cup {<<"z", "z", "z">>, <<"t", "x", "t">>, Str0}

(* A directory of the workspace, and one whose name has an extension. *)
LangDirs == {<<"/", "w", "/">>, <<"/", "w", ".", "p", "y", "/">>}

(* Files a.ext, dot files .ext and files named ext with no dot. *)
LangPaths ==
    {d \o <<"a", ".">> \o e : d \in LangDirs, e \in LangExtensions}
        \cup {d \o <<".">> \o e : d \in LangDirs, e \in LangExtensions \ {Str0}}
        \cup {d \o e : d \in LangDirs, e \in LangExtensions \ {Str0}}

LangMessages ==
    {[command |-> "getPreview",
      data |-> [filePath |-> f, line |-> <<"2">>, searchTerm |-> <<"f", "f", "f">>]] :
        f \in LangPaths}

LangOutcomes == {"returns", "throws"}

InitLang ==
    /\ InitHost
    /\ workspaceFolders = TRUE
    /\ storedTheme = "undefined"
    /\ "content" \in DOMAIN fileContent

NextLang ==
    \/ \E importOk \in BOOLEAN, createOk \in BOOLEAN : Activate(importOk, createOk)
    \/ \E createOk \in BOOLEAN : Telescope(createOk)
    \/ \E message \in LangMessages : jobs = << >> /\ Receive(message)
    \/ ReadSettles(1)
    \/ \E ok \in BOOLEAN, outcome \in LangOutcomes : LanguageSettles(1, ok, outcome)
    \/ \E ok \in BOOLEAN, outcome \in LangOutcomes : TextSettles(1, ok, outcome)

SpecLang == InitLang /\ [][NextLang]_vars

(* The extension of a path, read off its text: what follows the last dot   *)
(* of what follows the last separator, nothing when there is no dot there  *)
(* or the only dot is its first character.                                 *)
ExtensionOf(p) ==
    LET comps == Split(p, "/")
        parts == Split(comps[Len(comps)], ".")
    IN  IF Len(parts) = 1 \/ (Len(parts) = 2 /\ parts[1] = Str0) THEN Str0
        ELSE parts[Len(parts)]

LanguageIds == {c[2] : c \in LangCases} \cup {"text"}

(* C31: when getLangId has returned for the path of a preview request, the *)
(* language it gave is one of the language ids, and it is 'text' for every *)
(* path whose extension is missing or is not one of the switch's cases,    *)
(* among them upper-case variants such as .PY and unknown ones such as     *)
(* .zzz.                                                                   *)
C31_UnlistedExtensionIsText ==
    \A j \in DOMAIN jobs :
        (jobs[j].kind = "getPreview" /\ jobs[j].pc = "loadLanguage") =>
            /\ jobs[j].lang \in LanguageIds
            /\ ExtensionOf(jobs[j].message.data.filePath) \notin ListedExtensions
                   => jobs[j].lang = "text"

(* A preview of a.PY was classified as text and its table was posted. *)
C31_Witness ==
    \E j \in DOMAIN jobs :
        /\ jobs[j].kind = "getPreview"
        /\ ExtensionOf(jobs[j].message.data.filePath) = <<"P", "Y">>
        /\ jobs[j].pc = "done"
        /\ jobs[j].lang = "text"
        /\ Len(jobs[j].posted) = 1
        /\ ~IsErrorPreview(jobs[j].posted[1])

(***************************************************************************)
(* A session of searching and previewing, with or without a workspace      *)
(* folder: the user types a term the host searches, a term short enough    *)
(* that the host answers with no results at once, or clears the box, and   *)
(* leaves the selection where the webview puts it.                         *)
(***************************************************************************)
SessionTerms == {Str0, <<"f", "f">>, <<"f", "f", "f">>}

(* The calls of a session: a search, a preview and a second search. *)
MaxSessionJobs == 3

InitSession ==
    /\ InitHost
    /\ storedTheme = "undefined"
    /\ "content" \in DOMAIN fileContent

NextSession ==
    \/ \E importOk \in BOOLEAN, createOk \in BOOLEAN : Activate(importOk, createOk)
    \/ \E createOk \in BOOLEAN : Telescope(createOk)
    \/ currentPanel /\ \E value \in SessionTerms : Input(value)
    \/ currentPanel /\ \E t \in timers : TimerFires(t)
    \/ HostTakes(MaxSessionJobs)
    \/ WebviewReceives
    \/ \E j \in 1..MaxSessionJobs :
          \/ \E outcome \in SearchOutcomes : SearchSettles(j, outcome)
          \/ ReadSettles(j)
          \/ \E ok \in BOOLEAN, outcome \in TokenizeOutcomes : LanguageSettles(j, ok, outcome)
          \/ \E ok \in BOOLEAN, outcome \in TokenizeOutcomes : TextSettles(j, ok, outcome)

SpecSession == InitSession /\ [][NextSession]_vars

(* The preview element shows rows. *)
PreviewShown == previewDiv # << >>

(* C32: while the list shows 'No results found.', the preview element is   *)
(* empty.                                                                  *)
C32_NoResultsNoPreview == NoResultsShown => ~PreviewShown

(***************************************************************************)
(* The two windows of one preview: the lines case 'getPreview' tokenizes   *)
(* for a line of a file, and the rows case 'previewContent' paints for the *)
(* table of that file's length in a panel of some height.                  *)
(***************************************************************************)
(* Panels of 15 lines, 45 lines, 66.65 lines and 70 lines of 20 pixels. *)
PaintLayouts ==
    Layouts \cup {[lineHeight |-> 20, fontSize |-> 14, panelHeight |-> 1333],
                  [lineHeight |-> 20, fontSize |-> 14, panelHeight |-> 1400]}

InitPaint == InitWindow

ComputeWindows(layout) ==
    /\ window = null
    /\ window' = [tokenized |-> PreviewWindow(TargetLineIndex(previewLine), totalLines),
                  painted   |-> PaintWindow(ParseInt(previewLine), totalLines,
                                            TotalLinesToRender(layout)),
                  totalLinesToRender |-> TotalLinesToRender(layout)]
    /\ UNCHANGED <<searchVars, previewLine, totalLines, handlerVars, surfaceVars,
                   hostVars>>

NextPaint == \E layout \in PaintLayouts : ComputeWindows(layout)

SpecPaint == InitPaint /\ [][NextPaint]_vars

(* Every line of window a is a line of window b. *)
Inside(a, b) ==
    \A i \in a.startLine..(a.endLine - 1) : b.startLine <= i /\ i < b.endLine

(* C33: for a target line of the file, every painted line is one of the   *)
(* tokenized lines, whatever the height of the panel, the length of the    *)
(* file and the target line.                                               *)
C33_PaintedInsideTokenized ==
    (window # null /\ 1 <= ParseInt(previewLine) /\ ParseInt(previewLine) <= totalLines)
        => Inside(window.painted, window.tokenized)

(* C34: when the paint window has at most 100 lines, every painted line is *)
(* one of the tokenized lines, for every target line and file length.      *)
C34_SmallPaintInsideTokenized ==
    (window # null /\ window.totalLinesToRender <= linesToRender)
        => Inside(window.painted, window.tokenized)

(* The last line of a file of 210 lines in a panel that paints 68 lines:   *)
(* both windows end with the file, the painted one starts later.           *)
C34_Witness ==
    /\ window # null
    /\ totalLines = 210
    /\ ParseInt(previewLine) = 210
    /\ window.totalLinesToRender = 68
    /\ window.painted = [startLine |-> 142, endLine |-> 210]
    /\ window.tokenized = [startLine |-> 110, endLine |-> 210]

(* C35: for a table of totalLines >= 1 entries and any target line, the    *)
(* paint window satisfies 0 <= startLine <= endLine <= totalLines.         *)
C35_PaintWindowInTable ==
    (window # null /\ totalLines >= 1)
        => /\ 0 <= window.painted.startLine
           /\ window.painted.startLine <= window.painted.endLine
           /\ window.painted.endLine <= totalLines

(* Line 320 of a table of 3 entries: the three rows are painted. *)
C35_Witness ==
    /\ window # null
    /\ totalLines = 3
    /\ ParseInt(previewLine) = 320
    /\ window.painted = [startLine |-> 0, endLine |-> 3]

(* An item of the list shown carries the class 'selected' and has the file *)
(* and line of dataset.                                                    *)
SelectedNow(dataset) ==
    \E k \in SelectedItems(filesDiv) :
        /\ filesDiv[k].dataset.filePath = dataset.filePath
        /\ filesDiv[k].dataset.line = dataset.line

(* C36: when a preview timer fires, the 'getPreview' it posts names the    *)
(* file and line of the item that the list shows as selected at that       *)
(* moment.                                                                 *)
C36_Step ==
    \A t \in timers :
        (t.kind = "preview" /\ TimerFires(t)) => SelectedNow(t.payload)

C36_TimerPreviewsSelectedItem == [][C36_Step]_vars

(* C37: while the search box is empty, the result list has no item and the *)
(* preview is empty.                                                       *)
C37_ClearedStaysEmpty ==
    searchBox = Str0 => (ItemCount = 0 /\ previewDiv = << >>)

(* No timer is pending, no message is on its way in either direction and   *)
(* every call of a handler has ended.                                      *)
Quiescent ==
    /\ timers = {}
    /\ sent = << >>
    /\ outbox = << >>
    /\ \A j \in DOMAIN jobs : jobs[j].pc = "done"

(* The calls for 'search' messages, in the order the messages were posted. *)
SearchCalls == {j \in DOMAIN jobs : jobs[j].kind = "search"}

LatestSearch == CHOOSE j \in SearchCalls : \A i \in SearchCalls : i <= j

(* C38, for the result list: when the system is quiescent, the search box  *)
(* holds a term and the most recently posted 'search' was answered with    *)
(* results, the list shows those results.                                  *)
C38_QuiescentShowsLatestSearch ==
    (Quiescent /\ searchBox # Str0 /\ SearchCalls # {}
        /\ jobs[LatestSearch].posted[1].command = "results")
        => filesDiv = RenderedList(jobs[LatestSearch].posted[1].data)

(***************************************************************************)
(* The life of the panel: the command that opens it, the user closing it,  *)
(* and the theme command, which posts to the panel when there is one.      *)
(***************************************************************************)
(* The listener of panel.onDidDispose, when a panel is closed: the panel,  *)
(* its webview and what was posted to it are gone.                         *)
DisposePanel ==
    /\ HostReady
    /\ panels > 0
    /\ panels' = panels - 1
    /\ currentPanel' = FALSE
    /\ outbox' = << >>
    /\ searchBox' = Str0
    /\ filesDiv' = << >>
    /\ previewDiv' = << >>
    /\ selectedIndex' = 0
    /\ previewDebounceTimer' = 0
    /\ searchDebounceTimer' = 0
    /\ timers' = {}
    /\ sent' = << >>
    /\ UNCHANGED <<hostFrame, handlerVars, shiki, storedTheme, notifications,
                   documents, jobs, activation>>

InitPanel == InitHost

NextPanel ==
    \/ \E importOk \in BOOLEAN, createOk \in BOOLEAN : Activate(importOk, createOk)
    \/ \E createOk \in BOOLEAN : Telescope(createOk)
    \/ DisposePanel
    \/ \E chosen \in HostThemes : SelectTheme(chosen)
    \/ \E j \in 1..MaxJobs :
          \/ \E ok \in BOOLEAN : ThemeSettles(j, ok)
          \/ \E ok \in BOOLEAN : UpdateSettles(j, ok)

SpecPanel == InitPanel /\ [][NextPanel]_vars

(* C39: there is never more than one panel; a panel is created only when   *)
(* none exists and currentPanel is empty, so only after the previous one   *)
(* was disposed; the command invoked while a panel exists leaves the       *)
(* panels as they are; and once the commands are registered the engine is  *)
(* present or shiki is not loaded, so no invocation waits for the engine.  *)
C39_Step ==
    /\ panels' <= 1
    /\ (panels' > panels) => (panels = 0 /\ ~currentPanel)
    /\ (currentPanel /\ \E createOk \in BOOLEAN : Telescope(createOk))
           => UNCHANGED <<panels, currentPanel>>
    /\ (activation' = "active") => ~(highlighter' = null /\ shiki')
    /\ currentPanel' <=> (panels' = 1)

C39_AtMostOnePanel == (panels = 0 /\ ~currentPanel) /\ [][C39_Step]_vars

(* A panel was told of a theme change and was disposed, and the command    *)
(* has created a new one.                                                  *)
C39_Witness ==
    /\ \E j \in DOMAIN jobs : jobs[j].posted = <<ThemeChanged>>
    /\ outbox = << >>
    /\ panels = 1
    /\ currentPanel

(* The list shows one item, selected, with an empty file path and line 0. *)
PlaceholderShown ==
    /\ ItemCount = 1
    /\ SelectedNow([filePath |-> Str0, line |-> <<"0">>])

(***************************************************************************)
(* C40: without a workspace folder no process is spawned; a call for a     *)
(* search term of three or more characters that has ended has posted one   *)
(* 'results' message with one result, whose file path is empty and whose   *)
(* line is 0; every call for a 'getPreview' that names the empty path has  *)
(* ended at once and posted nothing; and the preview is empty.             *)
(***************************************************************************)
C40_NoFolderPlaceholder ==
    ~workspaceFolders =>
        /\ spawns = 0
        /\ \A j \in DOMAIN jobs :
               /\ (jobs[j].kind = "search" /\ Len(jobs[j].message.text) >= 3
                       /\ jobs[j].pc = "done")
                      => /\ Len(jobs[j].posted) = 1
                         /\ jobs[j].posted[1].command = "results"
                         /\ Len(jobs[j].posted[1].data) = 1
                         /\ jobs[j].posted[1].data[1].filePath = Str0
                         /\ jobs[j].posted[1].data[1].line = 0
               /\ (jobs[j].kind = "getPreview" /\ jobs[j].message.data.filePath = Str0)
                      => (jobs[j].pc = "done" /\ jobs[j].posted = << >>)
        /\ previewDiv = << >>

(* Without a folder, with the engine present: a search for fff was         *)
(* answered with the placeholder, which the list shows selected; the       *)
(* webview has asked for its preview, the host has handled the request,    *)
(* and nothing is pending.                                                 *)
C40_Witness ==
    /\ ~workspaceFolders
    /\ highlighter # null
    /\ spawns = 0
    /\ Quiescent
    /\ PlaceholderShown
    /\ \E j \in DOMAIN jobs :
           /\ jobs[j].kind = "search"
           /\ jobs[j].message.text = <<"f", "f", "f">>
           /\ jobs[j].posted = <<[command |-> "results", data |-> <<NoFolderResult>>]>>
    /\ \E j \in DOMAIN jobs :
           /\ jobs[j].kind = "getPreview"
           /\ jobs[j].message.data.filePath = Str0
           /\ jobs[j].message.data.line = <<"0">>
           /\ jobs[j].posted = << >>
    /\ previewDiv = << >>

====
